---- MODULE Spec2Model ----
(***************************************************************************)
(* Bluetooth host stack, connection and discovery control plane.           *)
(*                                                                         *)
(*   BrEdrDiscoveryManager  gap/bredr_discovery_manager.cc                 *)
(*   ChannelImpl            l2cap/channel.cc                               *)
(*   LowEnergyConnectionManager  gap/low_energy_connection_manager.h       *)
(*                                                                         *)
(* Every handler runs to completion on its dispatcher, so one action is    *)
(* one handler.  The HCI transport and the controller chip are the         *)
(* environment: they hold the commands the manager submitted and answer    *)
(* each with Command-Status / Command-Complete / completion events.        *)
(* Client callbacks are recorded in logs; they do not call back into the   *)
(* manager from inside a callback, except that a close callback of an LE   *)
(* connection reference may call Connect.                                  *)
(***************************************************************************)
EXTENDS Integers, Sequences, FiniteSets, TLC

(***************************************************************************)
(* Bounds of the model.                                                    *)
(***************************************************************************)
MaxRequests == 3
MaxInquiries == 2
MaxPeers == 2
MaxNameRequests == 2
MaxDiscoverableRequests == 3
MaxScanCommands == 6
MaxActivates == 2
MaxCloses == 2
MaxSends == 1
MaxPdus == 1
MaxRxPdus == 2
MaxLinkRequests == 1
MaxConnects == 3
MaxTeardowns == 1
MaxNameUpdates == 1
MaxLifetimeDiscoveries == 2
MaxLifetimeDiscoverables == 1
MaxLinkConnects == 1
MaxParamLinks == 1
MaxParamUpdates == 2
MaxConnEvents == 2
MaxStarts == 2
MaxNameLength == 300
MaxResponses == 2

(***************************************************************************)
(* hci::Status values carried by events.                                   *)
(***************************************************************************)
Success == "kSuccess"
Failures == {"kHardwareFailure", "kCommandDisallowed"}
StatusCodes == {Success} \cup Failures
InquiryModes == {"kStandard", "kExtended"}

NullSession == 0

VARIABLES
  \* ---- BrEdrDiscoveryManager: discovery
  discovering_,            \* live BrEdrDiscoverySession objects
  zombie_discovering_,     \* released sessions kept until Inquiry-Complete
  pending_discovery_,      \* queue of DiscoveryCallback (request ids)
  desired_inquiry_mode_,
  current_inquiry_mode_,
  \* ---- transport / controller side of discovery
  inq_await_status,        \* Inquiry commands submitted, no Command-Status yet
  inq_running,             \* Inquiry commands started, no Inquiry-Complete yet
  mode_cmds,               \* Write-Inquiry-Mode commands outstanding
  \* ---- clients of discovery
  disc_owned,              \* sessions whose unique_ptr a client still holds
  disc_errored,            \* sessions whose error callback has run
  disc_log,                \* per RequestDiscovery call: what its callback saw
  disc_batch,              \* number of Command-Status events handled so far
  n_inquiry,               \* Inquiry commands submitted so far
  n_session,               \* BrEdrDiscoverySession objects created so far
  disc_failed,             \* some discovery command has failed so far
  \* ---- BrEdrDiscoveryManager: remote names
  cache_,                  \* PeerCache: set of [id, addr, named]
  requesting_names_,       \* peers with a Remote-Name-Request in flight
  rnr_cmds,                \* Remote-Name-Request commands the transport holds
  n_peer,                  \* peers created so far
  n_rnr,                   \* Remote-Name-Request commands accepted so far
  \* ---- BrEdrDiscoveryManager: discoverable mode
  discoverable_,           \* live BrEdrDiscoverableSession objects
  pending_discoverable_,   \* queue of status callbacks (request ids)
  \* ---- transport / controller side of discoverable mode
  scan_enable,             \* the controller's Scan_Enable value
  scan_cmdq,               \* scan-enable commands submitted, not yet executed
  scan_evq,                \* their completion events, callback not yet run
  \* ---- clients of discoverable mode
  scan_owned,              \* discoverable sessions a client still holds
  scan_log,                \* per RequestDiscoverable call: what its callback saw
  n_scan_cmd,              \* scan-enable commands submitted so far
  n_dsession,              \* BrEdrDiscoverableSession objects created so far
  \* ---- l2cap ChannelImpl
  active_,
  link_,                   \* TRUE: refers to the link, FALSE: nullptr
  dispatcher_,
  rx_cb_,                  \* 0: empty, k: the callback of the k-th Activate call
  closed_cb_,
  rx_engine_,              \* TRUE: the engine exists
  tx_engine_,
  pending_rx_sdus_,
  \* ---- threads, dispatchers and the link around the channel
  owner_job,               \* task built by the owner's thread, not yet handed on
  link_job,                \* task built by the link's thread, not yet handed on
  chan_dispatcher_q,       \* tasks posted on the dispatcher given to Activate
  link_dispatcher_q,       \* tasks posted on link->dispatcher()
  default_dispatcher_q,    \* tasks posted on async_get_default_dispatcher()
  delivered,               \* callbacks invoked so far, in order
  tx_sdus,                 \* SDUs the TX engine has accepted
  in_link_table,           \* the link still routes PDUs to this channel
  debug_asserts,           \* ZX_DEBUG_ASSERT is compiled in
  crashed,                 \* the process has trapped or aborted
  n_activate,
  n_close,
  n_send,
  n_pdu,
  n_sdu,
  n_link_request,
  \* ---- LowEnergyConnectionManager
  pending_requests_,       \* PeerId -> callbacks of its PendingRequestData
  connections_,            \* PeerId -> the connection and its references
  connector_pending,       \* peer of the connector's pending request, or NoPeer
  \* ---- clients, controller and bearers around the manager
  le_order,                \* pending peers in the order their entry was made
  le_attempts,             \* peers of the Create-Connection requests, in order
  le_posted,               \* tasks Connect has posted on the dispatcher
  le_refs,                 \* every LowEnergyConnectionRef handed out
  le_log,                  \* per Connect call: what its callback saw
  le_teardown,             \* the connection CleanUpConnection is working on
  le_bearers,              \* peers whose L2CAP and GATT bearers are up
  n_ref,
  n_teardown,
  \* ---- BrEdrDiscoveryManager: lifetime and local name
  alive,                   \* the manager exists; WeakPtrs to it are valid
  event_handlers,          \* inquiry-result handlers registered with the channel
  local_name_,
  name_cmds,               \* local-name commands the transport holds, in order
  name_log,                \* per UpdateLocalName call: what its callback saw
  mgr_fault,               \* "none", or how a use of the dead manager ended
  \* ---- LowEnergyConnectionManager: connection parameters
  le_params,               \* per peer: the preferred parameters cached for it
  conn_update_cb,          \* le_conn_update_complete_command_callback_
  le_requests,             \* the parameter requests sent, in order
  n_param_update,
  n_conn_event,
  \* ---- BrEdrInterrogator
  peer_info,               \* the peer record in the PeerCache
  remote_last_page,        \* the last feature page of the peer device
  int_pending,             \* commands the controller has not answered yet
  int_issued,              \* the commands sent, in order
  int_log,                 \* per Start call: what its callback saw
  \* ---- the LogicalLink behind the channel
  link_alive,              \* the link exists; WeakPtrs to it are valid
  \* ---- BrEdrDiscoveryManager: extended inquiry response
  eir_name_length,         \* name.length() of the name to encode
  eir_response_buf,        \* the first TLV of the payload built for it
  \* ---- the step just taken
  last                     \* [op, issued, ...]: handler and the commands it sent

discVars == <<discovering_, zombie_discovering_, pending_discovery_,
              desired_inquiry_mode_, current_inquiry_mode_,
              inq_await_status, inq_running, mode_cmds,
              disc_owned, disc_errored, disc_log, disc_batch,
              n_inquiry, n_session, disc_failed>>

nameVars == <<cache_, requesting_names_, rnr_cmds, n_peer, n_rnr>>

scanVars == <<discoverable_, pending_discoverable_, scan_enable, scan_cmdq,
              scan_evq, scan_owned, scan_log, n_scan_cmd, n_dsession>>

chanFields == <<active_, link_, dispatcher_, rx_cb_, closed_cb_, rx_engine_,
                tx_engine_, pending_rx_sdus_>>

chanEnv == <<owner_job, link_job, chan_dispatcher_q, link_dispatcher_q,
             default_dispatcher_q, delivered, tx_sdus, in_link_table,
             debug_asserts, crashed>>

chanCounters == <<n_activate, n_close, n_send, n_pdu, n_sdu, n_link_request>>

chanVars == <<chanFields, chanEnv, chanCounters>>

leVars == <<pending_requests_, connections_, connector_pending, le_order,
            le_attempts, le_posted, le_refs, le_log, le_teardown, le_bearers,
            n_ref, n_teardown>>

lifeVars == <<alive, event_handlers, local_name_, name_cmds, name_log,
              mgr_fault>>

linkVars == <<le_params, conn_update_cb, le_requests, n_param_update,
              n_conn_event>>

intVars == <<peer_info, remote_last_page, int_pending, int_issued, int_log>>

weakVars == <<link_alive>>

eirVars == <<eir_name_length, eir_response_buf>>

vars == <<discVars, nameVars, scanVars, chanVars, leVars, lifeVars, linkVars,
          intVars, weakVars, eirVars, last>>

(***************************************************************************)
(* Helpers                                                                 *)
(***************************************************************************)
Count(seq, x) == Cardinality({i \in DOMAIN seq : seq[i] = x})

Range(seq) == {seq[i] : i \in DOMAIN seq}

IsError(status) == status # Success

(***************************************************************************)
(* BrEdrDiscoveryManager: discovery                                        *)
(***************************************************************************)

\* RequestDiscovery, first test: an Inquiry start is already awaited.
DiscoveryStartingMut(pending) == FALSE
DiscoveryStarting(pending) == pending # <<>>

\* RequestDiscovery, second test: "already scanning".
AlreadyScanningMut(live, zombie) == live # {}
AlreadyScanning(live, zombie) == live # {} \/ zombie # {}

\* MaybeStartInquiry, the test at its head.
WantsInquiryMut(pending, live) == pending # <<>>
WantsInquiry(pending, live) == ~(pending = <<>> /\ live = {})

\* MaybeStartInquiry: the commands it submits, in order.
MaybeStartInquiry(pending, live) ==
  IF ~WantsInquiry(pending, live) THEN <<>>
  ELSE (IF desired_inquiry_mode_ # current_inquiry_mode_
          THEN <<"kWriteInquiryMode">> ELSE <<>>) \o <<"kInquiry">>

\* StopInquiry: the command it submits.
StopInquiry == <<"kInquiryCancel">>

\* command_channel()->SendCommand / SendExclusiveCommand for these commands.
SubmitDiscovery(cmds) ==
  /\ inq_await_status' = inq_await_status + Count(cmds, "kInquiry")
  /\ n_inquiry' = n_inquiry + Count(cmds, "kInquiry")
  /\ mode_cmds' = mode_cmds + Count(cmds, "kWriteInquiryMode")

\* AddDiscoverySession: a new session object, inserted in discovering_.
AddDiscoverySession(live) == live \cup {n_session + 1}

\* RemoveDiscoverySession: [live, zombie] afterwards and the commands sent
\* (none: StopInquiry is not called, see the TODO at line 533).
RemoveDiscoverySessionMut(live, zombie, s) ==
  [live |-> live \ {s}, zombie |-> zombie, cmds |-> <<>>]
RemoveDiscoverySession(live, zombie, s) ==
  [live |-> live \ {s},
   zombie |-> IF s \in live THEN zombie \cup {s} ELSE zombie,
   cmds |-> <<>>]

InvalidateDiscoverySessionsMut ==
  /\ disc_errored' = disc_errored \cup discovering_ \cup zombie_discovering_

\* InvalidateDiscoverySessions: every live session gets NotifyError.
InvalidateDiscoverySessions ==
  /\ disc_errored' = disc_errored \cup discovering_

NewLogEntry(queued, inqAfter) ==
  [queued |-> queued, batch |-> disc_batch, inqBefore |-> n_inquiry,
   inqAfter |-> inqAfter, calls |-> 0, status |-> "none",
   session |-> NullSession, inqAtResolve |-> 0]

Resolved(entry, status, session, inqNow) ==
  [entry EXCEPT !.calls = @ + 1, !.status = status, !.session = session,
                !.inqAtResolve = inqNow]

RequestDiscovery ==
  /\ UNCHANGED <<nameVars, scanVars, chanVars, leVars, lifeVars,
                 linkVars, intVars, weakVars, eirVars>>
  /\ Len(disc_log) < MaxRequests
  /\ LET r == Len(disc_log) + 1 IN
     IF DiscoveryStarting(pending_discovery_) THEN
       /\ pending_discovery_' = Append(pending_discovery_, r)
       /\ disc_log' = Append(disc_log, NewLogEntry(TRUE, n_inquiry))
       /\ last' = [op |-> "RequestDiscovery", issued |-> <<>>]
       /\ UNCHANGED <<discovering_, zombie_discovering_, desired_inquiry_mode_,
                      current_inquiry_mode_, inq_await_status, inq_running,
                      mode_cmds, disc_owned, disc_errored, disc_batch,
                      n_inquiry, n_session, disc_failed>>
     ELSE IF AlreadyScanning(discovering_, zombie_discovering_) THEN
       /\ discovering_' = AddDiscoverySession(discovering_)
       /\ n_session' = n_session + 1
       /\ disc_owned' = disc_owned \cup {n_session + 1}
       /\ disc_log' = Append(disc_log,
             Resolved(NewLogEntry(FALSE, n_inquiry), Success, n_session + 1,
                      n_inquiry))
       /\ last' = [op |-> "RequestDiscovery", issued |-> <<>>]
       /\ UNCHANGED <<zombie_discovering_, pending_discovery_,
                      desired_inquiry_mode_, current_inquiry_mode_,
                      inq_await_status, inq_running, mode_cmds, disc_errored,
                      disc_batch, n_inquiry, disc_failed>>
     ELSE
       LET pending == Append(pending_discovery_, r)
           cmds == MaybeStartInquiry(pending, discovering_) IN
       /\ n_inquiry + Count(cmds, "kInquiry") <= MaxInquiries
       /\ pending_discovery_' = pending
       /\ SubmitDiscovery(cmds)
       /\ disc_log' = Append(disc_log,
             NewLogEntry(TRUE, n_inquiry + Count(cmds, "kInquiry")))
       /\ last' = [op |-> "RequestDiscovery", issued |-> cmds]
       /\ UNCHANGED <<discovering_, zombie_discovering_, desired_inquiry_mode_,
                      current_inquiry_mode_, inq_running, disc_owned,
                      disc_errored, disc_batch, n_session, disc_failed>>

\* ~BrEdrDiscoverySession: the owner lets go of a session it holds.
ReleaseDiscoverySession(s) ==
  /\ UNCHANGED <<nameVars, scanVars, chanVars, leVars, lifeVars,
                 linkVars, intVars, weakVars, eirVars>>
  /\ s \in disc_owned
  /\ disc_owned' = disc_owned \ {s}
  /\ LET after == RemoveDiscoverySession(discovering_, zombie_discovering_, s) IN
     /\ discovering_' = after.live
     /\ zombie_discovering_' = after.zombie
  /\ last' = [op |-> "ReleaseDiscoverySession",
              issued |-> RemoveDiscoverySession(discovering_,
                                                zombie_discovering_, s).cmds,
              session |-> s, wasLive |-> s \in discovering_]
  /\ UNCHANGED <<pending_discovery_, desired_inquiry_mode_,
                 current_inquiry_mode_, inq_await_status, inq_running,
                 mode_cmds, disc_errored, disc_log, disc_batch, n_inquiry,
                 n_session, disc_failed>>

\* The Inquiry callback on Command-Status (lines 175-200).
InquiryCommandStatus(status) ==
  /\ UNCHANGED <<nameVars, scanVars, chanVars, leVars, lifeVars,
                 linkVars, intVars, weakVars, eirVars>>
  /\ inq_await_status > 0
  /\ inq_await_status' = inq_await_status - 1
  /\ inq_running' = IF IsError(status) THEN inq_running ELSE inq_running + 1
  /\ LET live0 == IF IsError(status) THEN {} ELSE discovering_
         n == Len(pending_discovery_)
         \* the k-th pending callback gets the k-th new session
         sessionOf(k) == IF IsError(status) THEN NullSession ELSE n_session + k
         pos(r) == CHOOSE k \in 1..n : pending_discovery_[k] = r
     IN
     /\ IF IsError(status) THEN InvalidateDiscoverySessions
                           ELSE UNCHANGED disc_errored
     /\ discovering_' = live0 \cup ({sessionOf(k) : k \in 1..n} \ {NullSession})
     /\ disc_owned' = disc_owned \cup ({sessionOf(k) : k \in 1..n} \ {NullSession})
     /\ n_session' = IF IsError(status) THEN n_session ELSE n_session + n
     /\ disc_log' = [r \in DOMAIN disc_log |->
           IF r \in Range(pending_discovery_)
             THEN Resolved(disc_log[r], status, sessionOf(pos(r)), n_inquiry)
             ELSE disc_log[r]]
  /\ pending_discovery_' = <<>>
  /\ disc_batch' = disc_batch + 1
  /\ disc_failed' = (disc_failed \/ IsError(status))
  /\ last' = [op |-> "InquiryCommandStatus", issued |-> <<>>, status |-> status]
  /\ UNCHANGED <<zombie_discovering_, desired_inquiry_mode_,
                 current_inquiry_mode_, mode_cmds, n_inquiry>>

\* The Inquiry callback on Inquiry-Complete (lines 175-186, 202-211).
InquiryComplete(status) ==
  /\ UNCHANGED <<nameVars, scanVars, chanVars, leVars, lifeVars,
                 linkVars, intVars, weakVars, eirVars>>
  /\ inq_running > 0
  /\ LET live == IF IsError(status) THEN {} ELSE discovering_
         cmds == IF IsError(status) THEN <<>>
                 ELSE MaybeStartInquiry(pending_discovery_, live) IN
     /\ n_inquiry + Count(cmds, "kInquiry") <= MaxInquiries
     /\ IF IsError(status) THEN InvalidateDiscoverySessions
                           ELSE UNCHANGED disc_errored
     /\ discovering_' = live
     /\ zombie_discovering_' = {}
     /\ inq_running' = inq_running - 1
     /\ inq_await_status' = inq_await_status + Count(cmds, "kInquiry")
     /\ n_inquiry' = n_inquiry + Count(cmds, "kInquiry")
     /\ mode_cmds' = mode_cmds + Count(cmds, "kWriteInquiryMode")
     /\ last' = [op |-> "InquiryComplete", issued |-> cmds, status |-> status]
  /\ disc_failed' = (disc_failed \/ IsError(status))
  /\ UNCHANGED <<pending_discovery_, desired_inquiry_mode_,
                 current_inquiry_mode_, disc_owned, disc_log, disc_batch,
                 n_session>>

\* The Write-Inquiry-Mode callback (lines 157-165).
WriteInquiryModeComplete(status) ==
  /\ UNCHANGED <<nameVars, scanVars, chanVars, leVars, lifeVars,
                 linkVars, intVars, weakVars, eirVars>>
  /\ mode_cmds > 0
  /\ mode_cmds' = mode_cmds - 1
  /\ current_inquiry_mode_' =
       IF IsError(status) THEN current_inquiry_mode_ ELSE desired_inquiry_mode_
  /\ last' = [op |-> "WriteInquiryModeComplete", issued |-> <<>>]
  /\ UNCHANGED <<discovering_, zombie_discovering_, pending_discovery_,
                 desired_inquiry_mode_, inq_await_status, inq_running,
                 disc_owned, disc_errored, disc_log, disc_batch, n_inquiry,
                 n_session, disc_failed>>

\* The constructor (lines 79-106).
InitDiscovery ==
  /\ discovering_ = {}
  /\ zombie_discovering_ = {}
  /\ pending_discovery_ = <<>>
  /\ desired_inquiry_mode_ \in InquiryModes
  /\ current_inquiry_mode_ = "kStandard"
  /\ inq_await_status = 0
  /\ inq_running = 0
  /\ mode_cmds = 0
  /\ disc_owned = {}
  /\ disc_errored = {}
  /\ disc_log = <<>>
  /\ disc_batch = 0
  /\ n_inquiry = 0
  /\ n_session = 0
  /\ disc_failed = FALSE

NextDiscovery ==
  \/ RequestDiscovery
  \/ \E s \in disc_owned : ReleaseDiscoverySession(s)
  \/ \E status \in StatusCodes : InquiryCommandStatus(status)
  \/ \E status \in StatusCodes : InquiryComplete(status)
  \/ \E status \in StatusCodes : WriteInquiryModeComplete(status)

(***************************************************************************)
(* BrEdrDiscoveryManager: inquiry results and remote names                 *)
(***************************************************************************)
\* Device addresses that the controller reports.
Addrs == {1, 2}

InquiryResultCodes == {"kInquiryResultEventCode", "kInquiryResultWithRSSIEventCode"}

\* PeerCache::FindByAddress / FindById: the set of matching peers (0 or 1).
FindByAddress(cache, a) == {p \in cache : p.addr = a}
FindById(cache, id) == {p \in cache : p.id = id}

KnownAddrs(cache) == {p.addr : p \in cache}

\* The rank of a among the addresses S (1 for the smallest).
Rank(S, a) == Cardinality({b \in S : b <= a})

\* ProcessInquiryResult: the cache afterwards and the peers updated.  A
\* payload whose size is no multiple of the record size (extra) is ignored.
\* Peer::MutBrEdr().SetInquiryData leaves the peer's name as it is.
ProcessInquiryResult(cache, addrs, extra) ==
  IF extra THEN [cache |-> cache, updated |-> {}, dropped |-> TRUE]
  ELSE LET unknown == addrs \ KnownAddrs(cache)
           made == {[id |-> n_peer + Rank(unknown, a), addr |-> a,
                     named |-> FALSE] : a \in unknown}
           after == cache \cup made
       IN [cache |-> after, dropped |-> FALSE,
           updated |-> {p.id : p \in {q \in after : q.addr \in addrs}}]

\* RequestPeerName, first test (line 336).
AlreadyRequestingMut(names, id) == FALSE
AlreadyRequesting(names, id) == id \in names

\* RequestPeerName for each peer of ids that has no name: the peers for which
\* SendExclusiveCommand(kRemoteNameRequest) is called.
PeersToRequest(cache, names, ids) ==
  {id \in ids : /\ \E p \in FindById(cache, id) : ~p.named
                /\ ~AlreadyRequesting(names, id)}

\* A set of peer ids as a sequence, smallest first.
AsSeq(S) == [k \in 1..Cardinality(S) |-> CHOOSE id \in S : Rank(S, id) = k]

\* The handler of both inquiry-result events, after ProcessInquiryResult or
\* the extended event's own lookup: request names, notify the live sessions.
\* `step` carries the handler's name and what is known of the event.
HandleUpdatedPeersOf(step, addrs, res, accepted) ==
  LET ask == PeersToRequest(res.cache, requesting_names_, res.updated) IN
  /\ Cardinality(res.cache) - Cardinality(cache_) + n_peer <= MaxPeers
  /\ n_rnr + Cardinality(ask) <= MaxNameRequests
  /\ cache_' = res.cache
  /\ n_peer' = n_peer + Cardinality(res.cache) - Cardinality(cache_)
  /\ requesting_names_' =
       IF accepted THEN requesting_names_ \cup ask ELSE requesting_names_
  /\ rnr_cmds' = IF accepted
       THEN rnr_cmds \cup {[n |-> n_rnr + Rank(ask, id), peer |-> id,
                            acked |-> FALSE] : id \in ask}
       ELSE rnr_cmds
  /\ n_rnr' = IF accepted THEN n_rnr + Cardinality(ask) ELSE n_rnr
  /\ last' = step @@
             [issued |-> [k \in 1..Cardinality(ask) |-> "kRemoteNameRequest"],
              addrs |-> addrs, unknown |-> addrs \ KnownAddrs(cache_),
              created |-> {p.id : p \in res.cache \ cache_}, rnr |-> AsSeq(ask),
              accepted |-> accepted, dropped |-> res.dropped,
              updated |-> res.updated,
              inflight |-> {c.peer : c \in rnr_cmds},
              notified |-> discovering_ \X res.updated]

HandleUpdatedPeers(op, addrs, res, accepted) ==
  HandleUpdatedPeersOf([op |-> op], addrs, res, accepted)

\* BrEdrDiscoveryManager::InquiryResult (lines 228-250).
InquiryResult(code, addrs, extra, accepted) ==
  /\ code \in InquiryResultCodes
  /\ HandleUpdatedPeers("InquiryResult", addrs,
                        ProcessInquiryResult(cache_, addrs, extra), accepted)
  /\ UNCHANGED <<discVars, scanVars, chanVars, leVars, lifeVars,
                 linkVars, intVars, weakVars, eirVars>>

\* BrEdrDiscoveryManager::ExtendedInquiryResult (lines 252-279).
ExtendedInquiryResult(a, sizeOk, accepted) ==
  /\ HandleUpdatedPeersOf([op |-> "ExtendedInquiryResult",
                           malformed |-> ~sizeOk, overread |-> FALSE,
                           trapped |-> FALSE], {a},
                          ProcessInquiryResult(cache_, {a}, ~sizeOk), accepted)
  /\ UNCHANGED <<discVars, scanVars, chanVars, leVars, lifeVars,
                 linkVars, intVars, weakVars, eirVars>>

\* Sequences over S of at most n elements.
SeqsUpTo(S, n) == UNION {[1..k -> S] : k \in 0..n}

\* result.responses[i] for i < num_responses, as the loop of
\* ProcessInquiryResult reads them (lines 36-38).  The payload carries
\* `records`; a record past them lies outside the event, and what is read
\* there is whatever follows it in memory: `beyond`.
ResponsesRead(records, num_responses, beyond) ==
  [i \in 1..num_responses |->
     IF i <= Len(records) THEN records[i] ELSE beyond]

\* How a read past the payload ends: a trap, or the bytes found there.
ReadsPastPayload ==
  {[outcome |-> "trap", beyond |-> 1]}
    \cup [outcome : {"wild"}, beyond : Addrs]

\* BrEdrDiscoveryManager::InquiryResult (lines 228-250), for either event
\* code, for an event whose num_responses field need not agree with the
\* records its payload carries.  `extra`: the payload ends in a partial
\* record (line 27).
InquiryResultEvent(records, num_responses, extra, past, accepted) ==
  LET read == Range(ResponsesRead(records, num_responses, past.beyond))
      step == [op |-> "InquiryResult",
               malformed |-> extra \/ num_responses # Len(records),
               overread |-> ~extra /\ num_responses > Len(records),
               trapped |-> FALSE]
  IN
  /\ IF ~extra /\ num_responses > Len(records) /\ past.outcome = "trap"
       THEN /\ last' = [step EXCEPT !.trapped = TRUE] @@ [issued |-> <<>>]
            /\ UNCHANGED nameVars
       ELSE HandleUpdatedPeersOf(step, read,
                                 ProcessInquiryResult(cache_, read, extra),
                                 accepted)
  /\ UNCHANGED <<discVars, scanVars, chanVars, leVars, lifeVars,
                 linkVars, intVars, weakVars, eirVars>>

RequestEndedMut(status, complete) == complete

\* The Remote-Name-Request callback erases the peer from requesting_names_
\* on an event with an error status (lines 360-363) and on the
\* Remote-Name-Request-Complete event (line 372), not on a successful
\* Command-Status (lines 365-367).
RequestEnded(status, complete) == IsError(status) \/ complete

\* The Remote-Name-Request callback on Command-Status (lines 357-368).
RemoteNameCommandStatus(c, status) ==
  /\ c \in rnr_cmds /\ ~c.acked
  /\ requesting_names_' = IF RequestEnded(status, FALSE)
                             THEN requesting_names_ \ {c.peer}
                             ELSE requesting_names_
  /\ rnr_cmds' = IF IsError(status)
                   THEN rnr_cmds \ {c}
                   ELSE (rnr_cmds \ {c}) \cup {[c EXCEPT !.acked = TRUE]}
  /\ last' = [op |-> "RemoteNameCommandStatus", issued |-> <<>>]
  /\ UNCHANGED <<cache_, n_peer, n_rnr>>
  /\ UNCHANGED <<discVars, scanVars, chanVars, leVars, lifeVars,
                 linkVars, intVars, weakVars, eirVars>>

\* The callback on Remote-Name-Request-Complete (lines 357-382).
RemoteNameRequestComplete(c, status) ==
  /\ c \in rnr_cmds /\ c.acked
  /\ rnr_cmds' = rnr_cmds \ {c}
  /\ requesting_names_' = IF RequestEnded(status, TRUE)
                             THEN requesting_names_ \ {c.peer}
                             ELSE requesting_names_
  /\ cache_' = IF IsError(status) THEN cache_
               ELSE {IF p.id = c.peer THEN [p EXCEPT !.named = TRUE] ELSE p :
                       p \in cache_}
  /\ last' = [op |-> "RemoteNameRequestComplete", issued |-> <<>>]
  /\ UNCHANGED <<n_peer, n_rnr>>
  /\ UNCHANGED <<discVars, scanVars, chanVars, leVars, lifeVars,
                 linkVars, intVars, weakVars, eirVars>>

\* The peer cache drops a peer (PeerCache is a collaborator of the manager).
PeerRemoved(p) ==
  /\ p \in cache_
  /\ cache_' = cache_ \ {p}
  /\ last' = [op |-> "PeerRemoved", issued |-> <<>>]
  /\ UNCHANGED <<requesting_names_, rnr_cmds, n_peer, n_rnr>>
  /\ UNCHANGED <<discVars, scanVars, chanVars, leVars, lifeVars,
                 linkVars, intVars, weakVars, eirVars>>

InitNames ==
  /\ cache_ = {}
  /\ requesting_names_ = {}
  /\ rnr_cmds = {}
  /\ n_peer = 0
  /\ n_rnr = 0

\* The discovery state after one RequestDiscovery whose Inquiry has started.
DiscoveryOneSession ==
  /\ discovering_ = {1}
  /\ zombie_discovering_ = {}
  /\ pending_discovery_ = <<>>
  /\ desired_inquiry_mode_ = "kStandard"
  /\ current_inquiry_mode_ = "kStandard"
  /\ inq_await_status = 0
  /\ inq_running = 1
  /\ mode_cmds = 0
  /\ disc_owned = {1}
  /\ disc_errored = {}
  /\ disc_log = <<[queued |-> TRUE, batch |-> 0, inqBefore |-> 0,
                   inqAfter |-> 1, calls |-> 1, status |-> Success,
                   session |-> 1, inqAtResolve |-> 1]>>
  /\ disc_batch = 1
  /\ n_inquiry = 1
  /\ n_session = 1
  /\ disc_failed = FALSE

NextNames ==
  \/ \E code \in InquiryResultCodes, addrs \in (SUBSET Addrs) \ {{}},
        extra \in BOOLEAN, accepted \in BOOLEAN :
       InquiryResult(code, addrs, extra, accepted)
  \/ \E a \in Addrs, sizeOk \in BOOLEAN, accepted \in BOOLEAN :
       ExtendedInquiryResult(a, sizeOk, accepted)
  \/ \E c \in rnr_cmds, status \in StatusCodes : RemoteNameCommandStatus(c, status)
  \/ \E c \in rnr_cmds, status \in StatusCodes : RemoteNameRequestComplete(c, status)
  \/ \E p \in cache_ : PeerRemoved(p)


(***************************************************************************)
(* BrEdrDiscoveryManager: discoverable mode (inquiry scan)                 *)
(***************************************************************************)
\* hci::ScanEnableBit
kInquiry == 1
kPage == 2

\* scan_type & kInquiry, scan_type | kInquiry, scan_type & ~kInquiry (uint8_t)
HasInquiryBit(v) == (v \div kInquiry) % 2 = 1
SetInquiryBit(v) == IF HasInquiryBit(v) THEN v ELSE v + kInquiry
ClearInquiryBitMut(v) == IF HasInquiryBit(v) THEN v - v ELSE v
ClearInquiryBit(v) == IF HasInquiryBit(v) THEN v - kInquiry ELSE v

\* SetInquiryScan, lines 422 and 444: the wanted state of inquiry scan.
WantsScan(live, pending) == live # {} \/ pending # <<>>

\* The read callback, line 449: is a Write-Scan-Enable needed.
NeedsScanWriteMut(enable, enabled) == TRUE
NeedsScanWrite(enable, enabled) == enable # enabled

ReadScanEnable(seq) == [op |-> "kReadScanEnable", value |-> 0, seq |-> seq]
WriteScanEnable(v, seq) == [op |-> "kWriteScanEnable", value |-> v, seq |-> seq]

\* SetInquiryScan: the command it submits (lines 480-481).
SetInquiryScan == <<ReadScanEnable(n_scan_cmd + 1)>>

NewScanLogEntry ==
  [calls |-> 0, status |-> "none", session |-> NullSession,
   at |-> n_scan_cmd,
   cold |-> discoverable_ = {} /\ ~HasInquiryBit(scan_enable),
   by |-> [op |-> "none", value |-> 0, seq |-> 0],
   scanAtResolve |-> 0]

\* status_cb of RequestDiscoverable (lines 399-401) run for every queued
\* callback with the same status; the k-th callback gets the k-th new session.
ResolvePendingDiscoverable(status, by) ==
  LET n == Len(pending_discoverable_)
      sessionOf(k) == IF IsError(status) THEN NullSession ELSE n_dsession + k
      made == {sessionOf(k) : k \in 1..n} \ {NullSession}
      pos(r) == CHOOSE k \in 1..n : pending_discoverable_[k] = r
  IN
  /\ pending_discoverable_' = <<>>
  /\ discoverable_' = discoverable_ \cup made
  /\ scan_owned' = scan_owned \cup made
  /\ n_dsession' = n_dsession + Cardinality(made)
  /\ scan_log' = [r \in DOMAIN scan_log |->
        IF r \in Range(pending_discoverable_)
          THEN [scan_log[r] EXCEPT !.calls = @ + 1, !.status = status,
                   !.session = sessionOf(pos(r)), !.by = by,
                   !.scanAtResolve = scan_enable]
          ELSE scan_log[r]]

RequestDiscoverable ==
  /\ Len(scan_log) < MaxDiscoverableRequests
  /\ LET r == Len(scan_log) + 1 IN
     IF pending_discoverable_ # <<>> THEN
       /\ pending_discoverable_' = Append(pending_discoverable_, r)
       /\ scan_log' = Append(scan_log, NewScanLogEntry)
       /\ last' = [op |-> "RequestDiscoverable", issued |-> <<>>]
       /\ UNCHANGED <<discoverable_, scan_cmdq, scan_owned, n_scan_cmd, n_dsession>>
     ELSE IF discoverable_ # {} THEN
       /\ discoverable_' = discoverable_ \cup {n_dsession + 1}
       /\ scan_owned' = scan_owned \cup {n_dsession + 1}
       /\ n_dsession' = n_dsession + 1
       /\ scan_log' = Append(scan_log,
            [NewScanLogEntry EXCEPT !.calls = 1, !.status = Success,
                !.session = n_dsession + 1, !.scanAtResolve = scan_enable,
                !.by = [op |-> "immediate", value |-> 0, seq |-> 0]])
       /\ last' = [op |-> "RequestDiscoverable", issued |-> <<>>]
       /\ UNCHANGED <<pending_discoverable_, scan_cmdq, n_scan_cmd>>
     ELSE
       /\ n_scan_cmd < MaxScanCommands
       /\ pending_discoverable_' = Append(pending_discoverable_, r)
       /\ scan_log' = Append(scan_log, NewScanLogEntry)
       /\ scan_cmdq' = scan_cmdq \o SetInquiryScan
       /\ n_scan_cmd' = n_scan_cmd + 1
       /\ last' = [op |-> "RequestDiscoverable", issued |-> SetInquiryScan]
       /\ UNCHANGED <<discoverable_, scan_owned, n_dsession>>
  /\ UNCHANGED <<scan_enable, scan_evq>>
  /\ UNCHANGED <<discVars, nameVars, chanVars, leVars, lifeVars,
                 linkVars, intVars, weakVars, eirVars>>

\* ~BrEdrDiscoverableSession -> RemoveDiscoverableSession (lines 74-77, 551-557).
ReleaseDiscoverableSession(s) ==
  /\ s \in scan_owned
  /\ scan_owned' = scan_owned \ {s}
  /\ discoverable_' = discoverable_ \ {s}
  /\ IF discoverable_ \ {s} = {}
       THEN /\ n_scan_cmd < MaxScanCommands
            /\ scan_cmdq' = scan_cmdq \o SetInquiryScan
            /\ n_scan_cmd' = n_scan_cmd + 1
            /\ last' = [op |-> "ReleaseDiscoverableSession", issued |-> SetInquiryScan]
       ELSE /\ UNCHANGED <<scan_cmdq, n_scan_cmd>>
            /\ last' = [op |-> "ReleaseDiscoverableSession", issued |-> <<>>]
  /\ UNCHANGED <<pending_discoverable_, scan_enable, scan_evq, scan_log, n_dsession>>
  /\ UNCHANGED <<discVars, nameVars, chanVars, leVars, lifeVars,
                 linkVars, intVars, weakVars, eirVars>>

\* The controller executes the oldest scan-enable command and reports it.
ScanCommandExecuted(status) ==
  /\ scan_cmdq # <<>>
  /\ LET c == Head(scan_cmdq) IN
     /\ scan_cmdq' = Tail(scan_cmdq)
     /\ scan_enable' = IF c.op = "kWriteScanEnable" /\ ~IsError(status)
                         THEN c.value ELSE scan_enable
     /\ scan_evq' = Append(scan_evq,
          [op |-> c.op, seq |-> c.seq, status |-> status,
           value |-> IF c.op = "kReadScanEnable" /\ ~IsError(status)
                       THEN scan_enable ELSE c.value])
  /\ last' = [op |-> "ScanCommandExecuted", issued |-> <<>>]
  /\ UNCHANGED <<discoverable_, pending_discoverable_, scan_owned, scan_log,
                 n_scan_cmd, n_dsession>>
  /\ UNCHANGED <<discVars, nameVars, chanVars, leVars, lifeVars,
                 linkVars, intVars, weakVars, eirVars>>

\* scan_enable_cb, the Read-Scan-Enable callback (lines 426-478).
ReadScanEnableCallback ==
  /\ scan_evq # <<>>
  /\ Head(scan_evq).op = "kReadScanEnable"
  /\ LET ev == Head(scan_evq)
         enable == WantsScan(discoverable_, pending_discoverable_)
         enabled == HasInquiryBit(ev.value)
         write == <<WriteScanEnable(IF enable THEN SetInquiryBit(ev.value)
                                              ELSE ClearInquiryBit(ev.value),
                                    n_scan_cmd + 1)>>
         seen(sent) ==
                 [op |-> "ReadScanEnableCallback", issued |-> sent,
                  status |-> ev.status,
                  read |-> ev.value, hadSession |-> discoverable_ # {},
                  pendingBefore |-> pending_discoverable_, seq |-> ev.seq]
     IN
     /\ scan_evq' = Tail(scan_evq)
     /\ IF ~IsError(ev.status) /\ NeedsScanWrite(enable, enabled)
          THEN /\ n_scan_cmd < MaxScanCommands
               /\ scan_cmdq' = scan_cmdq \o write
               /\ n_scan_cmd' = n_scan_cmd + 1
               /\ last' = seen(write)
               /\ UNCHANGED <<discoverable_, pending_discoverable_, scan_owned,
                              scan_log, n_dsession>>
          ELSE /\ ResolvePendingDiscoverable(ev.status,
                    [op |-> ev.op, value |-> ev.value, seq |-> ev.seq])
               /\ last' = seen(<<>>)
               /\ UNCHANGED <<scan_cmdq, n_scan_cmd>>
  /\ UNCHANGED scan_enable
  /\ UNCHANGED <<discVars, nameVars, chanVars, leVars, lifeVars,
                 linkVars, intVars, weakVars, eirVars>>

\* The Write-Scan-Enable callback (lines 464-477).
WriteScanEnableCallback ==
  /\ scan_evq # <<>>
  /\ Head(scan_evq).op = "kWriteScanEnable"
  /\ LET ev == Head(scan_evq) IN
     /\ scan_evq' = Tail(scan_evq)
     /\ ResolvePendingDiscoverable(ev.status,
          [op |-> ev.op, value |-> ev.value, seq |-> ev.seq])
     /\ last' = [op |-> "WriteScanEnableCallback", issued |-> <<>>,
                 status |-> ev.status, pendingBefore |-> pending_discoverable_,
                 seq |-> ev.seq]
  /\ UNCHANGED <<scan_enable, scan_cmdq, n_scan_cmd>>
  /\ UNCHANGED <<discVars, nameVars, chanVars, leVars, lifeVars,
                 linkVars, intVars, weakVars, eirVars>>

\* Inquiry scan is off after a controller reset; page scan is another
\* component's business and may be on or off.
InitScan ==
  /\ discoverable_ = {}
  /\ pending_discoverable_ = <<>>
  /\ scan_enable \in {0, kPage}
  /\ scan_cmdq = <<>>
  /\ scan_evq = <<>>
  /\ scan_owned = {}
  /\ scan_log = <<>>
  /\ n_scan_cmd = 0
  /\ n_dsession = 0

NextScan ==
  \/ RequestDiscoverable
  \/ \E s \in scan_owned : ReleaseDiscoverableSession(s)
  \/ \E status \in StatusCodes : ScanCommandExecuted(status)
  \/ ReadScanEnableCallback
  \/ WriteScanEnableCallback

(***************************************************************************)
(* l2cap ChannelImpl                                                       *)
(***************************************************************************)
\* dispatcher_ = nullptr: callbacks run on the caller's thread (data domain).
NoDispatcher == "nullptr"
Dispatchers == {NoDispatcher, "dispatcher"}
NoCallback == 0
NoTask == <<>>

\* The fields of the channel that its mutex guards.
ChannelFields ==
  [active_ |-> active_, link_ |-> link_, dispatcher_ |-> dispatcher_,
   rx_cb_ |-> rx_cb_, closed_cb_ |-> closed_cb_, rx_engine_ |-> rx_engine_,
   tx_engine_ |-> tx_engine_, pending_rx_sdus_ |-> pending_rx_sdus_]

\* How much the world around the channel holds: tasks built and posted,
\* callbacks run, SDUs the TX engine took.
ChannelEffects ==
  [jobs |-> Len(owner_job) + Len(link_job),
   posted |-> Len(chan_dispatcher_q) + Len(link_dispatcher_q)
                + Len(default_dispatcher_q),
   delivered |-> Len(delivered), tx_sdus |-> tx_sdus]

\* The callbacks a delivery task invokes when it runs.
TaskCallbacks(task) ==
  IF task.kind = "closed"
    THEN <<[cb |-> "closed", by |-> task.func, sdu |-> 0]>>
    ELSE [i \in 1..Len(task.sdus) |->
            [cb |-> "rx", by |-> task.func, sdu |-> task.sdus[i]]]

\* A call of Deactivate has returned at some earlier step.
Deactivated == "deactivated" \in DOMAIN last /\ last.deactivated

ChanStep(op, ret, issued) ==
  [op |-> op, issued |-> issued, ret |-> ret, pre |-> ChannelFields,
   before |-> ChannelEffects, deactivated |-> Deactivated \/ op = "Deactivate"]

ActivateRejectedMut(link) == FALSE

\* `if (!link_) return false;` (lines 127-128)
ActivateRejected(link) == ~link

\* ActivateWithDispatcher up to the end of its critical section
\* (lines 114-150); ActivateOnDataDomain passes nullptr (159-161).
ActivateWithDispatcher(dispatcher) ==
  /\ ~crashed
  /\ owner_job = NoTask
  /\ n_activate < MaxActivates
  /\ n_activate' = n_activate + 1
  /\ IF ActivateRejected(link_) THEN
       /\ last' = ChanStep("Activate", "false", <<>>)
       /\ UNCHANGED <<chanFields, chanEnv>>
     ELSE IF debug_asserts /\ (active_ \/ dispatcher_ # NoDispatcher) THEN
       /\ crashed' = TRUE
       /\ last' = ChanStep("Activate", "abort", <<>>)
       /\ UNCHANGED <<chanFields, owner_job, link_job, chan_dispatcher_q,
                      link_dispatcher_q, default_dispatcher_q, delivered,
                      tx_sdus, in_link_table, debug_asserts>>
     ELSE
       /\ active_' = TRUE
       /\ dispatcher_' = dispatcher
       /\ rx_cb_' = n_activate + 1
       /\ closed_cb_' = n_activate + 1
       /\ pending_rx_sdus_' = <<>>
       /\ owner_job' = IF pending_rx_sdus_ # <<>>
                         THEN <<[kind |-> "rx", func |-> n_activate + 1,
                                 sdus |-> pending_rx_sdus_,
                                 dispatcher |-> dispatcher]>>
                         ELSE NoTask
       /\ last' = ChanStep("Activate", "true", <<>>)
       /\ UNCHANGED <<link_, rx_engine_, tx_engine_, link_job,
                      chan_dispatcher_q, link_dispatcher_q,
                      default_dispatcher_q, delivered, tx_sdus, in_link_table,
                      debug_asserts, crashed>>
  /\ UNCHANGED <<n_close, n_send, n_pdu, n_sdu, n_link_request>>
  /\ UNCHANGED <<discVars, nameVars, scanVars, leVars, lifeVars,
                 linkVars, intVars, weakVars, eirVars>>

\* Deactivate (lines 163-189), called by the channel's owner.
Deactivate ==
  /\ ~crashed
  /\ owner_job = NoTask
  /\ n_close < MaxCloses
  /\ n_close' = n_close + 1
  /\ IF ~link_ \/ ~active_ THEN
       /\ link_' = FALSE
       /\ last' = ChanStep("Deactivate", "void", <<>>)
       /\ UNCHANGED <<active_, dispatcher_, rx_cb_, closed_cb_, rx_engine_,
                      tx_engine_, pending_rx_sdus_, link_dispatcher_q>>
     ELSE
       /\ active_' = FALSE
       /\ dispatcher_' = NoDispatcher
       /\ rx_cb_' = NoCallback
       /\ closed_cb_' = NoCallback
       /\ rx_engine_' = FALSE
       /\ tx_engine_' = FALSE
       /\ link_dispatcher_q' = Append(link_dispatcher_q, "RemoveChannel")
       /\ link_' = FALSE
       /\ last' = ChanStep("Deactivate", "void", <<"RemoveChannel">>)
       /\ UNCHANGED pending_rx_sdus_
  /\ UNCHANGED <<owner_job, link_job, chan_dispatcher_q, default_dispatcher_q,
                 delivered, tx_sdus, in_link_table, debug_asserts, crashed>>
  /\ UNCHANGED <<n_activate, n_send, n_pdu, n_sdu, n_link_request>>
  /\ UNCHANGED <<discVars, nameVars, scanVars, leVars, lifeVars,
                 linkVars, intVars, weakVars, eirVars>>

OnClosedIgnoredMut(link, active) == FALSE

\* `if (!link_ || !active_) { link_ = nullptr; return; }` (lines 252-255)
OnClosedIgnored(link, active) == ~link \/ ~active

\* OnClosed up to the end of its critical section (lines 244-265), called by
\* the link on its own thread.
OnClosed ==
  /\ ~crashed
  /\ link_job = NoTask
  /\ n_close < MaxCloses
  /\ n_close' = n_close + 1
  /\ IF OnClosedIgnored(link_, active_) THEN
       /\ link_' = FALSE
       /\ last' = ChanStep("OnClosed", "void", <<>>)
       /\ UNCHANGED <<active_, dispatcher_, closed_cb_, rx_engine_,
                      tx_engine_, link_job>>
     ELSE
       /\ link_job' = <<[kind |-> "closed", func |-> closed_cb_,
                         sdus |-> <<>>, dispatcher |-> dispatcher_]>>
       /\ closed_cb_' = NoCallback
       /\ active_' = FALSE
       /\ link_' = FALSE
       /\ dispatcher_' = NoDispatcher
       /\ rx_engine_' = FALSE
       /\ tx_engine_' = FALSE
       /\ last' = ChanStep("OnClosed", "void", <<>>)
  /\ UNCHANGED <<rx_cb_, pending_rx_sdus_>>
  /\ UNCHANGED <<owner_job, chan_dispatcher_q, link_dispatcher_q,
                 default_dispatcher_q, delivered, tx_sdus, in_link_table,
                 debug_asserts, crashed>>
  /\ UNCHANGED <<n_activate, n_send, n_pdu, n_sdu, n_link_request>>
  /\ UNCHANGED <<discVars, nameVars, scanVars, leVars, lifeVars,
                 linkVars, intVars, weakVars, eirVars>>

\* RunOrPost(task, dispatcher) at the end of ActivateWithDispatcher (152-154),
\* OnClosed (267) and HandleRxPdu (321): run the task on the spot when the
\* dispatcher is nullptr, post it otherwise.
RunOrPost(thread) ==
  LET job == IF thread = "owner" THEN owner_job ELSE link_job IN
  /\ ~crashed
  /\ job # NoTask
  /\ IF job[1].dispatcher = NoDispatcher
       THEN /\ delivered' = delivered \o TaskCallbacks(job[1])
            /\ last' = ChanStep("RunOrPost", "ran", <<>>)
            /\ UNCHANGED chan_dispatcher_q
       ELSE /\ chan_dispatcher_q' = Append(chan_dispatcher_q, job[1])
            /\ last' = ChanStep("RunOrPost", "posted", <<job[1].kind>>)
            /\ UNCHANGED delivered
  /\ IF thread = "owner"
       THEN owner_job' = NoTask /\ UNCHANGED link_job
       ELSE link_job' = NoTask /\ UNCHANGED owner_job
  /\ UNCHANGED <<chanFields, chanCounters, link_dispatcher_q,
                 default_dispatcher_q, tx_sdus, in_link_table, debug_asserts,
                 crashed>>
  /\ UNCHANGED <<discVars, nameVars, scanVars, leVars, lifeVars,
                 linkVars, intVars, weakVars, eirVars>>

\* Send (lines 206-222).  The TRACE_DURATION argument link_->handle()
\* (line 210) is evaluated before the `!link_` test of line 212 whenever the
\* "bluetooth" trace category is on: with link_ == nullptr that dereference
\* either traps or yields a value only the trace record uses.  QueueSdu's
\* verdict is the engine's; an accepted SDU goes out through send_cb
\* (lines 72-79), which posts SendFrame on the link's dispatcher.
Send(traps, accepted) ==
  /\ ~crashed
  /\ owner_job = NoTask
  /\ n_send < MaxSends
  /\ n_send' = n_send + 1
  /\ IF traps /\ ~link_ THEN
       /\ crashed' = TRUE
       /\ last' = ChanStep("Send", "trap", <<>>)
       /\ UNCHANGED <<tx_sdus, link_dispatcher_q>>
     ELSE IF ~link_ \/ ~active_ \/ ~accepted THEN
       /\ last' = ChanStep("Send", "false", <<>>)
       /\ UNCHANGED <<tx_sdus, link_dispatcher_q, crashed>>
     ELSE
       /\ tx_sdus' = tx_sdus + 1
       /\ link_dispatcher_q' = Append(link_dispatcher_q, "SendFrame")
       /\ last' = ChanStep("Send", "true", <<"SendFrame">>)
       /\ UNCHANGED crashed
  /\ UNCHANGED <<chanFields, owner_job, link_job, chan_dispatcher_q,
                 default_dispatcher_q, delivered, in_link_table, debug_asserts>>
  /\ UNCHANGED <<n_activate, n_close, n_pdu, n_sdu, n_link_request>>
  /\ UNCHANGED <<discVars, nameVars, scanVars, leVars, lifeVars,
                 linkVars, intVars, weakVars, eirVars>>

\* HandleRxPdu up to the end of its critical section (lines 270-320), called
\* by the link on its own thread while it routes PDUs to the channel.
\* `completes`: rx_engine_->ProcessPdu returned an SDU.  Line 276 evaluates
\* link_->handle() for the trace record as line 210 does.
HandleRxPduWithin(limit, traps, completes) ==
  /\ ~crashed
  /\ link_job = NoTask
  /\ in_link_table
  /\ n_pdu < limit
  /\ n_pdu' = n_pdu + 1
  /\ IF traps /\ ~link_ THEN
       /\ crashed' = TRUE
       /\ last' = ChanStep("HandleRxPdu", "trap", <<>>)
       /\ UNCHANGED <<pending_rx_sdus_, link_job, n_sdu>>
     ELSE IF ~link_ \/ ~completes THEN
       /\ last' = ChanStep("HandleRxPdu", "void", <<>>)
       /\ UNCHANGED <<pending_rx_sdus_, link_job, n_sdu, crashed>>
     ELSE IF ~active_ THEN
       /\ pending_rx_sdus_' = Append(pending_rx_sdus_, n_sdu + 1)
       /\ n_sdu' = n_sdu + 1
       /\ last' = ChanStep("HandleRxPdu", "void", <<>>)
       /\ UNCHANGED <<link_job, crashed>>
     ELSE
       /\ link_job' = <<[kind |-> "rx", func |-> rx_cb_,
                         sdus |-> <<n_sdu + 1>>, dispatcher |-> dispatcher_]>>
       /\ n_sdu' = n_sdu + 1
       /\ last' = ChanStep("HandleRxPdu", "void", <<>>)
       /\ UNCHANGED <<pending_rx_sdus_, crashed>>
  /\ UNCHANGED <<active_, link_, dispatcher_, rx_cb_, closed_cb_, rx_engine_,
                 tx_engine_>>
  /\ UNCHANGED <<owner_job, chan_dispatcher_q, link_dispatcher_q,
                 default_dispatcher_q, delivered, tx_sdus, in_link_table,
                 debug_asserts>>
  /\ UNCHANGED <<n_activate, n_close, n_send, n_link_request>>
  /\ UNCHANGED <<discVars, nameVars, scanVars, leVars, lifeVars,
                 linkVars, intVars, weakVars, eirVars>>

HandleRxPdu(traps, completes) == HandleRxPduWithin(MaxPdus, traps, completes)

\* SignalLinkError (lines 191-204): the task goes to
\* async_get_default_dispatcher(), the caller's dispatcher.
SignalLinkError ==
  /\ ~crashed
  /\ owner_job = NoTask
  /\ n_link_request < MaxLinkRequests
  /\ n_link_request' = n_link_request + 1
  /\ IF ~link_ \/ ~active_
       THEN /\ last' = ChanStep("SignalLinkError", "void", <<>>)
            /\ UNCHANGED default_dispatcher_q
       ELSE /\ last' = ChanStep("SignalLinkError", "void", <<"SignalError">>)
            /\ default_dispatcher_q' = Append(default_dispatcher_q, "SignalError")
  /\ UNCHANGED <<chanFields, owner_job, link_job, chan_dispatcher_q,
                 link_dispatcher_q, delivered, tx_sdus, in_link_table,
                 debug_asserts, crashed>>
  /\ UNCHANGED <<n_activate, n_close, n_send, n_pdu, n_sdu>>
  /\ UNCHANGED <<discVars, nameVars, scanVars, leVars, lifeVars,
                 linkVars, intVars, weakVars, eirVars>>

\* UpgradeSecurity (lines 224-242): the task goes to link_->dispatcher().
UpgradeSecurity ==
  /\ ~crashed
  /\ owner_job = NoTask
  /\ n_link_request < MaxLinkRequests
  /\ n_link_request' = n_link_request + 1
  /\ IF ~link_ \/ ~active_
       THEN /\ last' = ChanStep("UpgradeSecurity", "void", <<>>)
            /\ UNCHANGED link_dispatcher_q
       ELSE /\ last' = ChanStep("UpgradeSecurity", "void", <<"UpgradeSecurity">>)
            /\ link_dispatcher_q' = Append(link_dispatcher_q, "UpgradeSecurity")
  /\ UNCHANGED <<chanFields, owner_job, link_job, chan_dispatcher_q,
                 default_dispatcher_q, delivered, tx_sdus, in_link_table,
                 debug_asserts, crashed>>
  /\ UNCHANGED <<n_activate, n_close, n_send, n_pdu, n_sdu>>
  /\ UNCHANGED <<discVars, nameVars, scanVars, leVars, lifeVars,
                 linkVars, intVars, weakVars, eirVars>>

\* The link's dispatcher runs its oldest task on the link's thread: SendFrame
\* (lines 73-78), RemoveChannel (181-186), UpgradeSecurity (236-241).
RunLinkTask ==
  /\ ~crashed
  /\ link_job = NoTask
  /\ link_dispatcher_q # <<>>
  /\ link_dispatcher_q' = Tail(link_dispatcher_q)
  /\ in_link_table' = IF Head(link_dispatcher_q) = "RemoveChannel"
                        THEN FALSE ELSE in_link_table
  /\ last' = ChanStep("RunLinkTask", Head(link_dispatcher_q), <<>>)
  /\ UNCHANGED <<chanFields, chanCounters, owner_job, link_job,
                 chan_dispatcher_q, default_dispatcher_q, delivered, tx_sdus,
                 debug_asserts, crashed>>
  /\ UNCHANGED <<discVars, nameVars, scanVars, leVars, lifeVars,
                 linkVars, intVars, weakVars, eirVars>>

\* The owner's default dispatcher runs the SignalError task (lines 198-203).
RunDefaultTask ==
  /\ ~crashed
  /\ owner_job = NoTask
  /\ default_dispatcher_q # <<>>
  /\ default_dispatcher_q' = Tail(default_dispatcher_q)
  /\ last' = ChanStep("RunDefaultTask", Head(default_dispatcher_q), <<>>)
  /\ UNCHANGED <<chanFields, chanCounters, owner_job, link_job,
                 chan_dispatcher_q, link_dispatcher_q, delivered, tx_sdus,
                 in_link_table, debug_asserts, crashed>>
  /\ UNCHANGED <<discVars, nameVars, scanVars, leVars, lifeVars,
                 linkVars, intVars, weakVars, eirVars>>

\* The dispatcher given to Activate runs its oldest delivery task
\* (lines 140-147, 259, 313-317).
RunDispatcherTask ==
  /\ ~crashed
  /\ owner_job = NoTask
  /\ chan_dispatcher_q # <<>>
  /\ chan_dispatcher_q' = Tail(chan_dispatcher_q)
  /\ delivered' = delivered \o TaskCallbacks(Head(chan_dispatcher_q))
  /\ last' = ChanStep("RunDispatcherTask", Head(chan_dispatcher_q).kind, <<>>)
  /\ UNCHANGED <<chanFields, chanCounters, owner_job, link_job,
                 link_dispatcher_q, default_dispatcher_q, tx_sdus,
                 in_link_table, debug_asserts, crashed>>
  /\ UNCHANGED <<discVars, nameVars, scanVars, leVars, lifeVars,
                 linkVars, intVars, weakVars, eirVars>>

\* The channel after its constructor (lines 57-104).
InitChannel ==
  /\ active_ = FALSE
  /\ link_ = TRUE
  /\ dispatcher_ = NoDispatcher
  /\ rx_cb_ = NoCallback
  /\ closed_cb_ = NoCallback
  /\ rx_engine_ = TRUE
  /\ tx_engine_ = TRUE
  /\ pending_rx_sdus_ = <<>>
  /\ owner_job = NoTask
  /\ link_job = NoTask
  /\ chan_dispatcher_q = <<>>
  /\ link_dispatcher_q = <<>>
  /\ default_dispatcher_q = <<>>
  /\ delivered = <<>>
  /\ tx_sdus = 0
  /\ in_link_table = TRUE
  /\ debug_asserts \in BOOLEAN
  /\ crashed = FALSE
  /\ n_activate = 0
  /\ n_close = 0
  /\ n_send = 0
  /\ n_pdu = 0
  /\ n_sdu = 0
  /\ n_link_request = 0

NextChannel ==
  \/ \E d \in Dispatchers : ActivateWithDispatcher(d)
  \/ Deactivate
  \/ OnClosed
  \/ \E t \in {"owner", "link"} : RunOrPost(t)
  \/ \E traps, accepted \in BOOLEAN : Send(traps, accepted)
  \/ \E traps, completes \in BOOLEAN : HandleRxPdu(traps, completes)
  \/ SignalLinkError
  \/ UpgradeSecurity
  \/ RunLinkTask
  \/ RunDefaultTask
  \/ RunDispatcherTask

(***************************************************************************)
(* LowEnergyConnectionManager                                              *)
(***************************************************************************)
\* Peers the PeerCache knows, and a peer id it does not know.
LePeers == {1, 2, 3}
UnknownPeer == 4
NoPeer == 0
NullRef == 0
LeFailures == {"kConnectionFailedToBeEstablished", "kConnectionTimeout"}
LeStatusCodes == {Success} \cup LeFailures

Without(f, p) == [q \in DOMAIN f \ {p} |-> f[q]]

RemoveFromSeq(seq, x) == SelectSeq(seq, LAMBDA y : y # x)

\* What the ConnectionResultCallback of one Connect call has seen so far.
\* `via`: what Connect found: "unknown", "connected" (and interrogated),
\* "interrogating", "pending" or "new".
NewLeLogEntry(p, accepted, via) ==
  [peer |-> p, ret |-> accepted, via |-> via, calls |-> 0, status |-> "none",
   ref |-> NullRef, interrogated |-> FALSE, group |-> 0]

\* PendingRequestData::NotifyCallbacks: every callback of the list gets the
\* status and the result of the reference function (refs[k] for the k-th).
NotifyCallbacks(log, callbacks, status, refs, interrogated, group) ==
  [r \in DOMAIN log |->
     IF \E k \in DOMAIN callbacks : callbacks[k] = r
       THEN LET k == CHOOSE k \in DOMAIN callbacks : callbacks[k] = r IN
            [log[r] EXCEPT !.calls = @ + 1, !.status = status,
                           !.ref = refs[k], !.interrogated = interrogated,
                           !.group = group]
       ELSE log[r]]

\* pending_requests_ is an unordered_map keyed by PeerId and a
\* PendingRequestData holds no creation time: the iteration that picks the
\* next peer can start at any pending entry.  `order` is the order of
\* creation, which the map does not keep.
NextPendingPeers(pending, order) == DOMAIN pending

\* TryCreateNextConnection: nothing while the connector has a request
\* pending or no request is pending; otherwise RequestCreateConnection for
\* the next pending peer.
TryCreateNextConnection(pending, order, busy) ==
  IF busy # NoPeer \/ DOMAIN pending = {}
    THEN /\ connector_pending' = busy
         /\ UNCHANGED le_attempts
    ELSE \E q \in NextPendingPeers(pending, order) :
            /\ connector_pending' = q
            /\ le_attempts' = Append(le_attempts, q)

CreateIssued(busy) ==
  IF connector_pending' # busy /\ connector_pending' # NoPeer
    THEN <<[op |-> "CreateConnection", peer |-> connector_pending']>>
    ELSE <<>>

\* AddConnectionRef: a new LowEnergyConnectionRef to the connection of p.
NewRef(id, p) == [id |-> id, peer |-> p, active |-> TRUE, closed |-> 0]

\* The manager's state that a call can change.
LeFields ==
  [pending_requests_ |-> pending_requests_, connections_ |-> connections_,
   connector_pending |-> connector_pending, le_attempts |-> le_attempts,
   le_posted |-> le_posted, le_refs |-> le_refs]

\* The connection handles of inbound links.
LinkHandles == {1, 2}

\* The handle of the link of a connection attempt: the controller gives a
\* new link a handle that no other link has.
LocalLinkHandle(attempt) == Cardinality(LinkHandles) + attempt

PeerKnownMut(p) == TRUE

\* peer_cache_->FindById(peer_id) finds the peer.
PeerKnown(p) == p \in LePeers

InterrogatedMut(p) == TRUE

\* The connection to p has been interrogated.
Interrogated(p) == connections_[p].interrogated

AlreadyPendingMut(p) == FALSE

\* pending_requests_.find(peer_id) finds an outstanding request.
AlreadyPending(p) == p \in DOMAIN pending_requests_

\* Connect.  It may also be called from inside a close callback while a
\* connection is being cleaned up.
Connect(p) ==
  /\ Len(le_log) < MaxConnects
  /\ le_posted = <<>>
  /\ le_teardown # <<>> => le_teardown[1].fired
  /\ LET r == Len(le_log) + 1 IN
     IF ~PeerKnown(p) THEN
       /\ le_log' = Append(le_log, NewLeLogEntry(p, FALSE, "unknown"))
       /\ last' = [op |-> "Connect", issued |-> <<>>, peer |-> p,
                   ret |-> FALSE, before |-> LeFields]
       /\ UNCHANGED <<pending_requests_, le_order, connector_pending,
                      connections_, le_attempts, le_posted>>
     ELSE IF p \in DOMAIN connections_ THEN
       /\ le_log' = Append(le_log, NewLeLogEntry(p, TRUE,
                        IF Interrogated(p) THEN "connected"
                                           ELSE "interrogating"))
       /\ IF Interrogated(p)
            THEN /\ le_posted' = Append(le_posted, [cb |-> r, peer |-> p])
                 /\ UNCHANGED connections_
            ELSE /\ connections_' =
                      [connections_ EXCEPT ![p].waiting = Append(@, r)]
                 /\ UNCHANGED le_posted
       /\ last' = [op |-> "Connect", issued |-> <<>>, peer |-> p,
                   ret |-> TRUE, before |-> LeFields]
       /\ UNCHANGED <<pending_requests_, le_order, connector_pending,
                      le_attempts>>
     ELSE IF AlreadyPending(p) THEN
       /\ le_log' = Append(le_log, NewLeLogEntry(p, TRUE, "pending"))
       /\ pending_requests_' = [pending_requests_ EXCEPT ![p] = Append(@, r)]
       /\ last' = [op |-> "Connect", issued |-> <<>>, peer |-> p,
                   ret |-> TRUE, before |-> LeFields]
       /\ UNCHANGED <<le_order, connector_pending, connections_, le_attempts,
                      le_posted>>
     ELSE
       /\ le_log' = Append(le_log, NewLeLogEntry(p, TRUE, "new"))
       /\ pending_requests_' = pending_requests_ @@ (p :> <<r>>)
       /\ le_order' = Append(le_order, p)
       /\ TryCreateNextConnection(pending_requests_', le_order',
                                  connector_pending)
       /\ last' = [op |-> "Connect", issued |-> CreateIssued(connector_pending),
                   peer |-> p, ret |-> TRUE, before |-> LeFields]
       /\ UNCHANGED <<connections_, le_posted>>
  /\ UNCHANGED <<le_refs, le_teardown, le_bearers, n_ref, n_teardown>>
  /\ UNCHANGED <<discVars, nameVars, scanVars, chanVars, lifeVars,
                 linkVars, intVars, weakVars, eirVars>>

\* The task Connect posts for a peer that is already connected and
\* interrogated: the callback gets a fresh reference from AddConnectionRef,
\* or a failure if the connection is gone by then.
RunPostedConnect ==
  /\ le_posted # <<>>
  /\ le_teardown = <<>>
  /\ LET t == Head(le_posted)
         found == t.peer \in DOMAIN connections_
                    /\ Interrogated(t.peer)
         status == IF found THEN Success
                            ELSE "kConnectionFailedToBeEstablished"
         refs == <<IF found THEN n_ref + 1 ELSE NullRef>>
     IN
     /\ le_posted' = Tail(le_posted)
     /\ le_log' = NotifyCallbacks(le_log, <<t.cb>>, status, refs, found, 0)
     /\ IF found
          THEN /\ le_refs' = le_refs @@ (n_ref + 1 :> NewRef(n_ref + 1, t.peer))
               /\ connections_' =
                    [connections_ EXCEPT ![t.peer].refs = @ \cup {n_ref + 1}]
               /\ n_ref' = n_ref + 1
          ELSE UNCHANGED <<le_refs, connections_, n_ref>>
     /\ last' = [op |-> "RunPostedConnect", issued |-> <<>>, peer |-> t.peer,
                 callbacks |-> <<t.cb>>]
  /\ UNCHANGED <<pending_requests_, le_order, connector_pending, le_attempts,
                 le_teardown, le_bearers, n_teardown>>
  /\ UNCHANGED <<discVars, nameVars, scanVars, chanVars, lifeVars,
                 linkVars, intVars, weakVars, eirVars>>

ConnectFailedMut(status) == status = "kConnectionFailedToBeEstablished"

\* The connector's result is a failure; a request that timed out is one.
ConnectFailed(status) == status # Success

\* OnConnectResult: the connector reports the result of the request it had
\* pending (a request timeout arrives as a failure status).  A failure
\* resolves and removes the PendingRequestData; a success registers the link
\* (RegisterLocalInitiatedLink -> InitializeConnection), which keeps the
\* callbacks until interrogation is over.  Either way the connector is free
\* and the next pending peer is tried.
OnConnectResult(status) ==
  /\ connector_pending # NoPeer
  /\ le_posted = <<>>
  /\ le_teardown = <<>>
  /\ LET p == connector_pending
         callbacks == pending_requests_[p]
         attempt == Len(le_attempts)
         none == [k \in DOMAIN callbacks |-> NullRef]
     IN
     /\ pending_requests_' = Without(pending_requests_, p)
     /\ le_order' = RemoveFromSeq(le_order, p)
     /\ IF ~ConnectFailed(status)
          THEN /\ connections_' = connections_ @@
                    (p :> [interrogated |-> FALSE, waiting |-> callbacks,
                           refs |-> {}, attempt |-> attempt,
                           handle |-> LocalLinkHandle(attempt)])
               /\ UNCHANGED le_log
          ELSE /\ le_log' = NotifyCallbacks(le_log, callbacks, status, none,
                                            FALSE, attempt)
               /\ UNCHANGED connections_
     /\ TryCreateNextConnection(pending_requests_', le_order', NoPeer)
     /\ last' = [op |-> "OnConnectResult", issued |-> CreateIssued(NoPeer),
                 peer |-> p, status |-> status, callbacks |-> callbacks,
                 pendingBefore |-> DOMAIN pending_requests_,
                 orderBefore |-> le_order]
  /\ UNCHANGED <<le_posted, le_refs, le_teardown, le_bearers, n_ref,
                 n_teardown>>
  /\ UNCHANGED <<discVars, nameVars, scanVars, chanVars, lifeVars,
                 linkVars, intVars, weakVars, eirVars>>

\* The end of the interrogation InitializeConnection started.  On success
\* (OnInterrogationComplete) the data bearers are wired and every waiting
\* callback gets a reference of its own; on failure every waiting callback
\* gets the failure and the connection is dropped.
InterrogationComplete(p, status) ==
  /\ p \in DOMAIN connections_
  /\ ~connections_[p].interrogated
  /\ le_posted = <<>>
  /\ le_teardown = <<>>
  /\ LET callbacks == connections_[p].waiting
         n == Len(callbacks)
         refs == [k \in 1..n |-> IF status = Success THEN n_ref + k
                                                    ELSE NullRef]
         made == {n_ref + k : k \in 1..n}
     IN
     /\ le_log' = NotifyCallbacks(le_log, callbacks, status, refs,
                                  status = Success, connections_[p].attempt)
     /\ IF status = Success
          THEN /\ connections_' =
                    [connections_ EXCEPT ![p].interrogated = TRUE,
                                         ![p].waiting = <<>>,
                                         ![p].refs = made]
               /\ le_refs' = le_refs @@ [id \in made |-> NewRef(id, p)]
               /\ le_bearers' = le_bearers \cup {p}
               /\ n_ref' = n_ref + n
          ELSE /\ connections_' = Without(connections_, p)
               /\ UNCHANGED <<le_refs, le_bearers, n_ref>>
     /\ last' = [op |-> "InterrogationComplete", issued |-> <<>>, peer |-> p,
                 status |-> status, callbacks |-> callbacks]
  /\ UNCHANGED <<pending_requests_, le_order, connector_pending, le_attempts,
                 le_posted, le_teardown, n_teardown>>
  /\ UNCHANGED <<discVars, nameVars, scanVars, chanVars, lifeVars,
                 linkVars, intVars, weakVars, eirVars>>

NewTeardownMut(p, conn) ==
  <<[peer |-> p, refs |-> {}, all |-> conn.refs, fired |-> FALSE]>>

\* The start of CleanUpConnection for a connection that has just been taken
\* out of connections_: its references are those to invalidate.
NewTeardown(p, conn) ==
  <<[peer |-> p, refs |-> conn.refs, all |-> conn.refs, fired |-> FALSE]>>

\* The callbacks still waiting for the interrogation of a connection that
\* goes away get a failure.
FailWaiting(log, conn) ==
  LET none == [k \in DOMAIN conn.waiting |-> NullRef] IN
  NotifyCallbacks(log, conn.waiting, "kConnectionFailedToBeEstablished", none,
                  FALSE, conn.attempt)

\* Disconnect(peer_id), first step: the connection leaves connections_, the
\* link is told to disconnect and CleanUpConnection starts.
Disconnect(p) ==
  /\ p \in DOMAIN connections_
  /\ le_teardown = <<>>
  /\ n_teardown < MaxTeardowns
  /\ n_teardown' = n_teardown + 1
  /\ connections_' = Without(connections_, p)
  /\ le_teardown' = NewTeardown(p, connections_[p])
  /\ le_log' = FailWaiting(le_log, connections_[p])
  /\ last' = [op |-> "Disconnect", peer |-> p,
              callbacks |-> connections_[p].waiting,
              issued |-> <<[op |-> "Disconnect", peer |-> p]>>]
  /\ UNCHANGED <<pending_requests_, le_order, connector_pending, le_attempts,
                 le_posted, le_refs, le_bearers, n_ref>>
  /\ UNCHANGED <<discVars, nameVars, scanVars, chanVars, lifeVars,
                 linkVars, intVars, weakVars, eirVars>>

\* OnPeerDisconnect, first step: the link is already gone; the connection
\* leaves connections_ and CleanUpConnection starts.
OnPeerDisconnect(p) ==
  /\ p \in DOMAIN connections_
  /\ le_teardown = <<>>
  /\ n_teardown < MaxTeardowns
  /\ n_teardown' = n_teardown + 1
  /\ connections_' = Without(connections_, p)
  /\ le_teardown' = NewTeardown(p, connections_[p])
  /\ le_log' = FailWaiting(le_log, connections_[p])
  /\ last' = [op |-> "OnPeerDisconnect", peer |-> p,
              callbacks |-> connections_[p].waiting, issued |-> <<>>]
  /\ UNCHANGED <<pending_requests_, le_order, connector_pending, le_attempts,
                 le_posted, le_refs, le_bearers, n_ref>>
  /\ UNCHANGED <<discVars, nameVars, scanVars, chanVars, lifeVars,
                 linkVars, intVars, weakVars, eirVars>>

\* CleanUpConnection, next step: LowEnergyConnectionRef::MarkClosed on one of
\* the connection's references: active_ becomes false and closed_cb_ runs.
MarkClosed(id) ==
  /\ le_teardown # <<>>
  /\ id \in le_teardown[1].refs
  /\ le_refs' = [le_refs EXCEPT ![id].active = FALSE, ![id].closed = @ + 1]
  /\ le_teardown' = <<[le_teardown[1] EXCEPT !.refs = @ \ {id},
                                             !.fired = TRUE]>>
  /\ last' = [op |-> "MarkClosed", issued |-> <<>>,
              peer |-> le_teardown[1].peer, ref |-> id]
  /\ UNCHANGED <<pending_requests_, le_order, connector_pending, connections_,
                 le_attempts, le_posted, le_log, le_bearers, n_ref,
                 n_teardown>>
  /\ UNCHANGED <<discVars, nameVars, scanVars, chanVars, lifeVars,
                 linkVars, intVars, weakVars, eirVars>>

RefsInvalidatedMut == TRUE

\* CleanUpConnection has notified every reference of the connection.
RefsInvalidated == le_teardown[1].refs = {}

\* CleanUpConnection, last step: the L2CAP and GATT bearers of the link are
\* removed and the connection object is disposed of.
TearDownBearers ==
  /\ le_teardown # <<>>
  /\ RefsInvalidated
  /\ le_bearers' = le_bearers \ {le_teardown[1].peer}
  /\ le_teardown' = <<>>
  /\ last' = [op |-> "TearDownBearers", issued |-> <<>>,
              peer |-> le_teardown[1].peer, refs |-> le_teardown[1].all]
  /\ UNCHANGED <<pending_requests_, le_order, connector_pending, connections_,
                 le_attempts, le_posted, le_refs, le_log, n_ref, n_teardown>>
  /\ UNCHANGED <<discVars, nameVars, scanVars, chanVars, lifeVars,
                 linkVars, intVars, weakVars, eirVars>>

InitLe ==
  /\ pending_requests_ = <<>>
  /\ le_order = <<>>
  /\ connector_pending = NoPeer
  /\ connections_ = <<>>
  /\ le_attempts = <<>>
  /\ le_posted = <<>>
  /\ le_refs = <<>>
  /\ le_log = <<>>
  /\ le_teardown = <<>>
  /\ le_bearers = {}
  /\ n_ref = 0
  /\ n_teardown = 0

NextLe ==
  \/ \E p \in LePeers \cup {UnknownPeer} : Connect(p)
  \/ RunPostedConnect
  \/ \E status \in LeStatusCodes : OnConnectResult(status)
  \/ \E p \in LePeers, status \in LeStatusCodes : InterrogationComplete(p, status)
  \/ \E p \in LePeers : Disconnect(p)
  \/ \E p \in LePeers : OnPeerDisconnect(p)
  \/ \E id \in 1..MaxConnects : MarkClosed(id)
  \/ TearDownBearers

(***************************************************************************)
(* BrEdrDiscoveryManager: destruction and the local name                   *)
(***************************************************************************)
EventHandlers == {"result_handler_id_", "rssi_handler_id_", "eir_handler_id_"}
LocalNames == {"a", "b"}
NoName == ""

\* What a call through an invalidated WeakPtr<BrEdrDiscoveryManager> can do:
\* the access faults, or it lands in memory that is not a live manager.
NullDerefOutcomes == {"trap", "wild"}

NewNameLogEntry(name) ==
  [name |-> name, calls |-> 0, status |-> "none", issued |-> <<>>]

NameCallback(log, r, status) ==
  [log EXCEPT ![r].calls = @ + 1, ![r].status = status]

NameIssued(log, r, op) == [log EXCEPT ![r].issued = Append(@, op)]

\* UpdateLocalName (lines 310-333), up to SendCommand.
UpdateLocalName(name) ==
  /\ alive
  /\ mgr_fault = "none"
  /\ Len(name_log) < MaxNameUpdates
  /\ LET r == Len(name_log) + 1 IN
     /\ name_cmds' = Append(name_cmds,
                            [op |-> "kWriteLocalName", name |-> name, cb |-> r])
     /\ name_log' = NameIssued(Append(name_log, NewNameLogEntry(name)), r,
                               "kWriteLocalName")
  /\ last' = [op |-> "UpdateLocalName", issued |-> <<"kWriteLocalName">>]
  /\ UNCHANGED <<alive, event_handlers, local_name_, mgr_fault>>
  /\ UNCHANGED <<discVars, nameVars, scanVars, chanVars, leVars,
                 linkVars, intVars, weakVars, eirVars>>

\* `self`, the WeakPtr a callback captured, still refers to the manager.
SelfValid(isAlive) == isAlive

\* The Write-Local-Name callback (lines 323-332): a failure goes to the
\* caller's callback; after a success self->UpdateEIRResponseData (lines
\* 281-308) sends Write-Extended-Inquiry-Response.  `self` is not tested.
WriteLocalNameComplete(status, outcome) ==
  /\ mgr_fault = "none"
  /\ name_cmds # <<>>
  /\ Head(name_cmds).op = "kWriteLocalName"
  /\ LET c == Head(name_cmds) IN
     IF IsError(status) THEN
       /\ name_cmds' = Tail(name_cmds)
       /\ name_log' = NameCallback(name_log, c.cb, status)
       /\ last' = [op |-> "WriteLocalNameComplete", issued |-> <<>>,
                   status |-> status, cb |-> c.cb, wasAlive |-> alive]
       /\ UNCHANGED mgr_fault
     ELSE IF SelfValid(alive) THEN
       /\ name_cmds' = Append(Tail(name_cmds),
                              [op |-> "kWriteExtendedInquiryResponse",
                               name |-> c.name, cb |-> c.cb])
       /\ name_log' = NameIssued(name_log, c.cb, "kWriteExtendedInquiryResponse")
       /\ last' = [op |-> "WriteLocalNameComplete",
                   issued |-> <<"kWriteExtendedInquiryResponse">>,
                   status |-> status, cb |-> c.cb, wasAlive |-> alive]
       /\ UNCHANGED mgr_fault
     ELSE
       /\ name_cmds' = Tail(name_cmds)
       /\ mgr_fault' = outcome
       /\ last' = [op |-> "WriteLocalNameComplete", issued |-> <<>>,
                   status |-> status, cb |-> c.cb, wasAlive |-> alive]
       /\ UNCHANGED name_log
  /\ UNCHANGED <<alive, event_handlers, local_name_>>
  /\ UNCHANGED <<discVars, nameVars, scanVars, chanVars, leVars,
                 linkVars, intVars, weakVars, eirVars>>

\* The Write-Extended-Inquiry-Response callback (lines 300-307): after a
\* success self->local_name_ is assigned, `self` untested; then the caller's
\* callback gets the status.
WriteExtendedInquiryResponseComplete(status, outcome) ==
  /\ mgr_fault = "none"
  /\ name_cmds # <<>>
  /\ Head(name_cmds).op = "kWriteExtendedInquiryResponse"
  /\ name_cmds' = Tail(name_cmds)
  /\ LET c == Head(name_cmds) IN
     /\ last' = [op |-> "WriteExtendedInquiryResponseComplete",
                 issued |-> <<>>, status |-> status, cb |-> c.cb,
                 wasAlive |-> alive]
     /\ IF IsError(status) THEN
          /\ name_log' = NameCallback(name_log, c.cb, status)
          /\ UNCHANGED <<local_name_, mgr_fault>>
        ELSE IF SelfValid(alive) THEN
          /\ local_name_' = c.name
          /\ name_log' = NameCallback(name_log, c.cb, status)
          /\ UNCHANGED mgr_fault
        ELSE
          /\ mgr_fault' = outcome
          /\ UNCHANGED <<local_name_, name_log>>
  /\ UNCHANGED <<alive, event_handlers>>
  /\ UNCHANGED <<discVars, nameVars, scanVars, chanVars, leVars,
                 linkVars, intVars, weakVars, eirVars>>

\* ~BrEdrDiscoveryManager (lines 108-113): the three event handlers are
\* removed and InvalidateDiscoverySessions (lines 559-564) runs; then the
\* members go, the pending callbacks with them, and the WeakPtrs to the
\* manager become invalid.  Sessions stay with their owners.
DestroyManager ==
  /\ alive
  /\ mgr_fault = "none"
  /\ alive' = FALSE
  /\ event_handlers' = {}
  /\ InvalidateDiscoverySessions
  /\ discovering_' = {}
  /\ zombie_discovering_' = {}
  /\ pending_discovery_' = <<>>
  /\ discoverable_' = {}
  /\ pending_discoverable_' = <<>>
  /\ last' = [op |-> "DestroyManager", issued |-> <<>>,
              notified |-> discovering_, zombies |-> zombie_discovering_]
  /\ UNCHANGED <<desired_inquiry_mode_, current_inquiry_mode_,
                 inq_await_status, inq_running, mode_cmds, disc_owned,
                 disc_log, disc_batch, n_inquiry, n_session, disc_failed>>
  /\ UNCHANGED <<scan_enable, scan_cmdq, scan_evq, scan_owned, scan_log,
                 n_scan_cmd, n_dsession>>
  /\ UNCHANGED <<local_name_, name_cmds, name_log, mgr_fault>>
  /\ UNCHANGED <<nameVars, chanVars, leVars,
                 linkVars, intVars, weakVars, eirVars>>

\* An Inquiry event or a Write-Inquiry-Mode completion after the manager
\* is gone: `if (!self) return;` (lines 157-160, 175-178).
DiscoveryEventAfterDestroy(kind) ==
  /\ ~alive
  /\ mgr_fault = "none"
  /\ CASE kind = "kCommandStatus" ->
            /\ inq_await_status > 0
            /\ inq_await_status' = inq_await_status - 1
            /\ inq_running' = inq_running + 1
            /\ UNCHANGED mode_cmds
       [] kind = "kInquiryComplete" ->
            /\ inq_running > 0
            /\ inq_running' = inq_running - 1
            /\ UNCHANGED <<inq_await_status, mode_cmds>>
       [] kind = "kWriteInquiryMode" ->
            /\ mode_cmds > 0
            /\ mode_cmds' = mode_cmds - 1
            /\ UNCHANGED <<inq_await_status, inq_running>>
  /\ last' = [op |-> "DiscoveryEventAfterDestroy", issued |-> <<>>,
              kind |-> kind, wasAlive |-> alive]
  /\ UNCHANGED <<discovering_, zombie_discovering_, pending_discovery_,
                 desired_inquiry_mode_, current_inquiry_mode_, disc_owned,
                 disc_errored, disc_log, disc_batch, n_inquiry, n_session,
                 disc_failed>>
  /\ UNCHANGED lifeVars
  /\ UNCHANGED <<nameVars, scanVars, chanVars, leVars,
                 linkVars, intVars, weakVars, eirVars>>

\* A Read- or Write-Scan-Enable completion after the manager is gone:
\* `if (!self) return;` (lines 431-434, 466-469).
ScanEventAfterDestroy ==
  /\ ~alive
  /\ mgr_fault = "none"
  /\ scan_evq # <<>>
  /\ scan_evq' = Tail(scan_evq)
  /\ last' = [op |-> "ScanEventAfterDestroy", issued |-> <<>>,
              kind |-> Head(scan_evq).op, wasAlive |-> alive]
  /\ UNCHANGED <<discoverable_, pending_discoverable_, scan_enable, scan_cmdq,
                 scan_owned, scan_log, n_scan_cmd, n_dsession>>
  /\ UNCHANGED lifeVars
  /\ UNCHANGED <<discVars, nameVars, chanVars, leVars,
                 linkVars, intVars, weakVars, eirVars>>

\* ~BrEdrDiscoverySession (lines 54-57) once the manager is gone:
\* manager_->RemoveDiscoverySession(this) goes through the invalidated
\* WeakPtr, which is not tested.
ReleaseDiscoverySessionAfterDestroy(s, outcome) ==
  /\ ~alive
  /\ mgr_fault = "none"
  /\ s \in disc_owned
  /\ disc_owned' = disc_owned \ {s}
  /\ mgr_fault' = outcome
  /\ last' = [op |-> "ReleaseDiscoverySession", issued |-> <<>>,
              session |-> s, wasLive |-> FALSE, wasAlive |-> alive]
  /\ UNCHANGED <<discovering_, zombie_discovering_, pending_discovery_,
                 desired_inquiry_mode_, current_inquiry_mode_,
                 inq_await_status, inq_running, mode_cmds, disc_errored,
                 disc_log, disc_batch, n_inquiry, n_session, disc_failed>>
  /\ UNCHANGED <<alive, event_handlers, local_name_, name_cmds, name_log>>
  /\ UNCHANGED <<nameVars, scanVars, chanVars, leVars,
                 linkVars, intVars, weakVars, eirVars>>

\* ~BrEdrDiscoverableSession (lines 74-77) once the manager is gone:
\* manager_->RemoveDiscoverableSession(this), the WeakPtr untested.
ReleaseDiscoverableSessionAfterDestroy(s, outcome) ==
  /\ ~alive
  /\ mgr_fault = "none"
  /\ s \in scan_owned
  /\ scan_owned' = scan_owned \ {s}
  /\ mgr_fault' = outcome
  /\ last' = [op |-> "ReleaseDiscoverableSession", issued |-> <<>>,
              session |-> s, wasAlive |-> alive]
  /\ UNCHANGED <<discoverable_, pending_discoverable_, scan_enable, scan_cmdq,
                 scan_evq, scan_log, n_scan_cmd, n_dsession>>
  /\ UNCHANGED <<alive, event_handlers, local_name_, name_cmds, name_log>>
  /\ UNCHANGED <<discVars, nameVars, chanVars, leVars,
                 linkVars, intVars, weakVars, eirVars>>

\* The manager after its constructor (lines 79-106): the three inquiry-result
\* handlers are registered.
InitLifetime ==
  /\ alive = TRUE
  /\ event_handlers = EventHandlers
  /\ local_name_ = NoName
  /\ name_cmds = <<>>
  /\ name_log = <<>>
  /\ mgr_fault = "none"

(***************************************************************************)
(* LowEnergyConnectionManager: remote-initiated links and connection       *)
(* parameters.                                                             *)
(***************************************************************************)
RemotePeers == {1, 2}
RemoteLinks == [handle : LinkHandles, peer : RemotePeers]
NoParams == 0
PreferredParams == {1, 2}
ConnUpdateStatusCodes ==
  {Success, "kUnsupportedRemoteFeature", "kCommandDisallowed"}

HandleRegisteredMut(h) == FALSE

\* A connection over a link with this handle is registered.
HandleRegistered(h) ==
  \E q \in DOMAIN connections_ : connections_[q].handle = h

\* RegisterRemoteInitiatedLink: the inbound counterpart of a successful
\* connector result.  A link whose handle is already registered, or whose
\* peer already has a connection, is refused: the callback gets a failure
\* status and no reference.  Otherwise InitializeConnection takes the link
\* and the callback waits for the interrogation.
RegisterRemoteInitiatedLink(link) ==
  /\ Len(le_log) < MaxConnects
  /\ le_posted = <<>>
  /\ le_teardown = <<>>
  /\ LET r == Len(le_log) + 1
         p == link.peer
         refused == HandleRegistered(link.handle) \/ p \in DOMAIN connections_
         entry == NewLeLogEntry(p, ~refused, "remote")
     IN
     /\ IF refused
          THEN /\ le_log' = NotifyCallbacks(Append(le_log, entry), <<r>>,
                               "kConnectionFailedToBeEstablished",
                               <<NullRef>>, FALSE, 0)
               /\ UNCHANGED connections_
          ELSE /\ le_log' = Append(le_log, entry)
               /\ connections_' = connections_ @@
                    (p :> [interrogated |-> FALSE, waiting |-> <<r>>,
                           refs |-> {}, attempt |-> 0,
                           handle |-> link.handle])
     /\ last' = [op |-> "RegisterRemoteInitiatedLink", issued |-> <<>>,
                 link |-> link, cb |-> r, refused |-> refused,
                 registered |-> {connections_[q].handle :
                                    q \in DOMAIN connections_}]
  /\ UNCHANGED <<pending_requests_, le_order, connector_pending, le_attempts,
                 le_posted, le_refs, le_teardown, le_bearers, n_ref,
                 n_teardown>>
  /\ UNCHANGED linkVars
  /\ UNCHANGED <<discVars, nameVars, scanVars, chanVars, lifeVars, intVars, weakVars, eirVars>>

\* A parameter request that went out: `via` is "hci" (LE Connection Update)
\* or "l2cap" (Connection Parameter Update Request); `answer` is the status
\* of the completion event the controller generated for it, if any yet.
ParamRequest(via, handle, p, params) ==
  [via |-> via, handle |-> handle, peer |-> p, params |-> params,
   answer |-> "none"]

\* The initializing procedures of the connection to p are complete.
InitializingComplete(p) == Interrogated(p)

\* OnNewLEConnectionParams / RequestConnectionParameterUpdate: the preferred
\* parameters are cached with the peer; if the connection is through its
\* interrogation they go to the controller in an HCI LE Connection Update,
\* and le_conn_update_complete_command_callback_ is set for its completion.
OnNewLEConnectionParams(p, params) ==
  /\ p \in DOMAIN connections_
  /\ conn_update_cb = <<>>
  /\ n_param_update < MaxParamUpdates
  /\ n_param_update' = n_param_update + 1
  /\ le_params' = [le_params EXCEPT ![p] = params]
  /\ LET req == ParamRequest("hci", connections_[p].handle, p, params) IN
     IF InitializingComplete(p)
       THEN /\ le_requests' = Append(le_requests, req)
            /\ conn_update_cb' = <<req>>
            /\ last' = [op |-> "OnNewLEConnectionParams",
                        issued |-> <<req>>, peer |-> p, params |-> params,
                        interrogated |-> Interrogated(p)]
       ELSE /\ UNCHANGED <<le_requests, conn_update_cb>>
            /\ last' = [op |-> "OnNewLEConnectionParams", issued |-> <<>>,
                        peer |-> p, params |-> params,
                        interrogated |-> Interrogated(p)]
  /\ UNCHANGED n_conn_event
  /\ UNCHANGED <<discVars, nameVars, scanVars, chanVars, leVars, lifeVars,
                 intVars, weakVars, eirVars>>

\* The status after which the update is tried again over L2CAP.
FallbackStatus(status) == status = "kUnsupportedRemoteFeature"

\* The HCI LE Connection Update commands for a handle that the controller
\* has not answered yet, as indexes of le_requests.
Unanswered(handle) ==
  {k \in DOMAIN le_requests :
     /\ le_requests[k].via = "hci"
     /\ le_requests[k].handle = handle
     /\ le_requests[k].answer = "none"}

Min(S) == CHOOSE k \in S : \A j \in S : k <= j

\* le_requests with the oldest unanswered command for the handle answered.
Answered(handle, status) ==
  [le_requests EXCEPT ![Min(Unanswered(handle))].answer = status]

\* OnLEConnectionUpdateComplete: an HCI LE Connection Update Complete event
\* for a link.  The controller generates one for each LE Connection Update
\* command (`own`) and others, after a change of the parameters that it or
\* the peer started.
\* le_conn_update_complete_command_callback_, if set, is called with the
\* handle and status of the next such event, whichever it is, and being a
\* fit::callback it is empty afterwards.  The callback sends an L2CAP
\* Connection Parameter Update Request if the event is for its link and has
\* status kUnsupportedRemoteFeature, and nothing otherwise.
OnLEConnectionUpdateComplete(handle, status, own) ==
  /\ n_conn_event < MaxConnEvents
  /\ n_conn_event' = n_conn_event + 1
  /\ IF own THEN Unanswered(handle) # {} ELSE status = Success
  /\ LET requests == IF own THEN Answered(handle, status) ELSE le_requests
         set == conn_update_cb # <<>>
         c == conn_update_cb[1]
         retry == set /\ c.handle = handle /\ FallbackStatus(status)
         req == ParamRequest("l2cap", c.handle, c.peer, c.params)
     IN
     /\ conn_update_cb' = <<>>
     /\ le_requests' = IF retry THEN Append(requests, req) ELSE requests
     /\ last' = [op |-> "OnLEConnectionUpdateComplete",
                 issued |-> IF retry THEN <<req>> ELSE <<>>,
                 handle |-> handle, status |-> status, own |-> own,
                 called |-> set]
  /\ UNCHANGED <<le_params, n_param_update>>
  /\ UNCHANGED <<discVars, nameVars, scanVars, chanVars, leVars, lifeVars,
                 intVars, weakVars, eirVars>>

InitLink ==
  /\ le_params = [p \in LePeers |-> NoParams]
  /\ conn_update_cb = <<>>
  /\ le_requests = <<>>
  /\ n_param_update = 0
  /\ n_conn_event = 0

(***************************************************************************)
(* BrEdrInterrogator, for one peer on one connection handle.               *)
(***************************************************************************)
MaxFeaturePage == 2

\* The peer record of PeerCache::NewPeer: no name, no version, no feature
\* page, last page number 0.
NewPeer == [name |-> FALSE, version |-> FALSE, pages |-> {}, last_page |-> 0]

\* The statuses of the controller's answers.
IntStatusCodes == {Success, "kUnspecifiedError"}

IntCommand(i, op, page) == [i |-> i, op |-> op, page |-> page]

\* What the callback of one Start call has seen, and the peer record Start
\* found.
NewInterrogation(peer) ==
  [calls |-> 0, status |-> "none", done |-> FALSE, found |-> peer]

\* Interrogation::Complete: the callback gets the status, once.
CompleteInterrogation(log, i, status) ==
  [log EXCEPT ![i].calls = @ + 1, ![i].status = status, ![i].done = TRUE]

\* LMPFeature::kExtendedFeatures in feature page 0 of the peer record.
HasExtendedFeatures(peer, lastPage) == 0 \in peer.pages /\ lastPage > 0

NameKnownMut(peer) == FALSE

\* peer->name() is set.
NameKnown(peer) == peer.name

\* The commands Start sends, in their order: the steps the peer record does
\* not satisfy yet; the extended pages are read again from page 1.
StartCommands(i, peer, lastPage) ==
  (IF NameKnown(peer) THEN <<>>
     ELSE <<IntCommand(i, "kRemoteNameRequest", 0)>>)
  \o (IF peer.version THEN <<>>
        ELSE <<IntCommand(i, "kReadRemoteVersionInfo", 0)>>)
  \o (IF 0 \notin peer.pages
        THEN <<IntCommand(i, "kReadRemoteSupportedFeatures", 0)>>
        ELSE IF HasExtendedFeatures(peer, lastPage)
          THEN <<IntCommand(i, "kReadRemoteExtendedFeatures", 1)>>
          ELSE <<>>)

\* The peer record after the successful completion of command c.
PeerAfter(peer, c, lastPage) ==
  CASE c.op = "kRemoteNameRequest" -> [peer EXCEPT !.name = TRUE]
    [] c.op = "kReadRemoteVersionInfo" -> [peer EXCEPT !.version = TRUE]
    [] c.op = "kReadRemoteSupportedFeatures" ->
         [peer EXCEPT !.pages = @ \cup {0}]
    [] c.op = "kReadRemoteExtendedFeatures" ->
         [peer EXCEPT !.pages = @ \cup {c.page}, !.last_page = lastPage]

FollowUpMut(c, lastPage) ==
  CASE c.op = "kReadRemoteSupportedFeatures" /\ lastPage > 0 ->
         <<IntCommand(c.i, "kReadRemoteExtendedFeatures", 1)>>
    [] OTHER -> <<>>

\* The command that the successful completion of command c sends.
FollowUp(c, lastPage) ==
  CASE c.op = "kReadRemoteSupportedFeatures" /\ lastPage > 0 ->
         <<IntCommand(c.i, "kReadRemoteExtendedFeatures", 1)>>
    [] c.op = "kReadRemoteExtendedFeatures" /\ c.page < lastPage ->
         <<IntCommand(c.i, "kReadRemoteExtendedFeatures", c.page + 1)>>
    [] OTHER -> <<>>

\* Interrogator::Start(peer_id, handle, callback), called when the
\* interrogations before it have ended; answers to their commands may still
\* be on their way.
Start ==
  /\ Len(int_log) < MaxStarts
  /\ \A j \in DOMAIN int_log : int_log[j].done
  /\ LET i == Len(int_log) + 1
         cmds == StartCommands(i, peer_info, remote_last_page)
         log == Append(int_log, NewInterrogation(peer_info))
     IN
     /\ int_issued' = int_issued \o cmds
     /\ int_pending' = int_pending \cup Range(cmds)
     /\ int_log' = IF cmds = <<>>
                     THEN CompleteInterrogation(log, i, Success)
                     ELSE log
     /\ last' = [op |-> "Start", issued |-> cmds, i |-> i]
  /\ UNCHANGED <<peer_info, remote_last_page>>
  /\ UNCHANGED <<discVars, nameVars, scanVars, chanVars, leVars, lifeVars,
                 linkVars, weakVars, eirVars>>

InterrogationDoneMut(log, i) == FALSE

\* The interrogation has called its callback.
InterrogationDone(log, i) == log[i].done

\* The controller's answer to one outstanding command: a failure (in its
\* Command Status or in its completion event) ends the interrogation with
\* that status; a success goes into the peer record and may send the next
\* page read; the interrogation whose last command has succeeded ends with
\* success.  An answer for an interrogation that has ended is dropped.
CommandComplete(c, status) ==
  /\ c \in int_pending
  /\ IF InterrogationDone(int_log, c.i) THEN
       /\ int_pending' = int_pending \ {c}
       /\ last' = [op |-> "CommandComplete", issued |-> <<>>, cmd |-> c,
                   status |-> status, dropped |-> TRUE]
       /\ UNCHANGED <<peer_info, int_issued, int_log>>
     ELSE IF IsError(status) THEN
       /\ int_pending' = int_pending \ {c}
       /\ int_log' = CompleteInterrogation(int_log, c.i, status)
       /\ last' = [op |-> "CommandComplete", issued |-> <<>>, cmd |-> c,
                   status |-> status, dropped |-> FALSE]
       /\ UNCHANGED <<peer_info, int_issued>>
     ELSE
       LET next == FollowUp(c, remote_last_page)
           pending == (int_pending \ {c}) \cup Range(next)
       IN
       /\ peer_info' = PeerAfter(peer_info, c, remote_last_page)
       /\ int_issued' = int_issued \o next
       /\ int_pending' = pending
       /\ int_log' = IF \E d \in pending : d.i = c.i
                       THEN int_log
                       ELSE CompleteInterrogation(int_log, c.i, Success)
       /\ last' = [op |-> "CommandComplete", issued |-> next, cmd |-> c,
                   status |-> status, dropped |-> FALSE]
  /\ UNCHANGED remote_last_page
  /\ UNCHANGED <<discVars, nameVars, scanVars, chanVars, leVars, lifeVars,
                 linkVars, weakVars, eirVars>>

\* The interrogator and the peer cache of the test fixture after SetUp and
\* NewPeer; the peer device has feature pages 0..MaxFeaturePage.
InitInterrogatorFields ==
  /\ peer_info = NewPeer
  /\ int_pending = {}
  /\ int_issued = <<>>
  /\ int_log = <<>>

InitInterrogator ==
  /\ InitInterrogatorFields
  /\ remote_last_page = MaxFeaturePage

(***************************************************************************)
(* The channel and the lifetime of its link                                *)
(***************************************************************************)
\* `if (link)` inside a posted task (lines 74, 95, 182, 199, 237): the weak
\* reference the task captured is still valid.
LinkValidAtRun == link_alive

\* The LogicalLink object is destroyed: every fxl::WeakPtr to it, link_ and
\* the copies captured at lines 72, 86, 180, 198 and 236, reads as null from
\* now on, and nothing routes PDUs to the channel any more.
DestroyLink ==
  /\ ~crashed
  /\ link_alive
  /\ link_job = NoTask
  /\ link_alive' = FALSE
  /\ link_' = FALSE
  /\ in_link_table' = FALSE
  /\ last' = ChanStep("DestroyLink", "void", <<>>)
  /\ UNCHANGED <<active_, dispatcher_, rx_cb_, closed_cb_, rx_engine_,
                 tx_engine_, pending_rx_sdus_>>
  /\ UNCHANGED <<owner_job, link_job, chan_dispatcher_q, link_dispatcher_q,
                 default_dispatcher_q, delivered, tx_sdus, debug_asserts,
                 crashed>>
  /\ UNCHANGED <<chanCounters, eirVars>>
  /\ UNCHANGED <<discVars, nameVars, scanVars, leVars, lifeVars,
                 linkVars, intVars>>

\* A task posted for the link runs after the link is gone: SendFrame
\* (lines 73-78), RemoveChannel (181-186), UpgradeSecurity (236-241).  Its
\* `if (link)` fails and it returns without touching the link.
RunLinkTaskAfterDestroy ==
  /\ ~crashed
  /\ ~LinkValidAtRun
  /\ link_dispatcher_q # <<>>
  /\ link_dispatcher_q' = Tail(link_dispatcher_q)
  /\ last' = ChanStep("RunLinkTask", "skipped", <<>>)
  /\ UNCHANGED <<chanFields, chanCounters, owner_job, link_job,
                 chan_dispatcher_q, default_dispatcher_q, delivered, tx_sdus,
                 in_link_table, debug_asserts, crashed>>
  /\ UNCHANGED <<discVars, nameVars, scanVars, leVars, lifeVars,
                 linkVars, intVars, weakVars, eirVars>>

\* The SignalError task (lines 198-203) runs after the link is gone.
RunDefaultTaskAfterDestroy ==
  /\ ~crashed
  /\ ~LinkValidAtRun
  /\ owner_job = NoTask
  /\ default_dispatcher_q # <<>>
  /\ default_dispatcher_q' = Tail(default_dispatcher_q)
  /\ last' = ChanStep("RunDefaultTask", "skipped", <<>>)
  /\ UNCHANGED <<chanFields, chanCounters, owner_job, link_job,
                 chan_dispatcher_q, link_dispatcher_q, delivered, tx_sdus,
                 in_link_table, debug_asserts, crashed>>
  /\ UNCHANGED <<discVars, nameVars, scanVars, leVars, lifeVars,
                 linkVars, intVars, weakVars, eirVars>>

InitWeakLink == link_alive = TRUE

(***************************************************************************)
(* BrEdrDiscoveryManager: the Write-Extended-Inquiry-Response payload       *)
(***************************************************************************)
\* hci::kExtendedInquiryResponseBytes less the length byte and the type byte.
kExtendedInquiryResponseMaxNameBytes == 238

NoEir == <<>>

\* The value an expression of type size_t leaves in a uint8_t.
Uint8(n) == n % 256

\* name_size (lines 283-287): the number of name bytes copied into the
\* payload by Write (line 299).
EirNameSize(length) ==
  IF length >= kExtendedInquiryResponseMaxNameBytes
    THEN kExtendedInquiryResponseMaxNameBytes
    ELSE length

\* name_type (lines 282-286).
EirNameType(length) ==
  IF length >= kExtendedInquiryResponseMaxNameBytes
    THEN "kShortenedLocalName"
    ELSE "kCompleteLocalName"

\* The first TLV of extended_inquiry_response (lines 296-299): byte 0 is
\* `name.length() + 1`, byte 1 the type, then name_size bytes of the name;
\* the rest of the buffer is zero.
EirResponse(length) ==
  [length_byte |-> Uint8(length + 1), type |-> EirNameType(length),
   name_bytes |-> EirNameSize(length)]

\* UpdateEIRResponseData up to SendCommand (lines 281-300), for a name of
\* eir_name_length bytes.
UpdateEIRResponseData ==
  /\ eir_response_buf = NoEir
  /\ eir_response_buf' = EirResponse(eir_name_length)
  /\ last' = [op |-> "UpdateEIRResponseData",
              issued |-> <<"kWriteExtendedInquiryResponse">>]
  /\ UNCHANGED eir_name_length
  /\ UNCHANGED <<discVars, nameVars, scanVars, chanVars, leVars, lifeVars,
                 linkVars, intVars, weakVars>>

InitEirFields == eir_response_buf = NoEir

InitEir == InitEirFields /\ eir_name_length = 0

Init ==
  /\ InitDiscovery
  /\ InitNames
  /\ InitScan
  /\ InitChannel
  /\ InitLe
  /\ InitLifetime
  /\ InitLink
  /\ InitInterrogator
  /\ InitWeakLink
  /\ InitEir
  /\ last = [op |-> "Init", issued |-> <<>>]

\* The discovery operations alone; the other parts rest in their initial state.
InitDiscoverySpec == Init /\ scan_enable = 0 /\ ~debug_asserts

DiscoverySpec == InitDiscoverySpec /\ [][NextDiscovery]_vars

\* The discoverable-mode operations alone.
InitScanSpec == Init /\ desired_inquiry_mode_ = "kStandard" /\ ~debug_asserts

ScanSpec == InitScanSpec /\ [][NextScan]_vars

\* The inquiry-result and remote-name operations alone, with no discovery
\* session or with one.
InitNameSpec ==
  /\ ((InitDiscovery /\ desired_inquiry_mode_ = "kStandard")
        \/ DiscoveryOneSession)
  /\ InitNames
  /\ InitScan /\ scan_enable = 0
  /\ InitChannel /\ ~debug_asserts
  /\ InitLe
  /\ InitLifetime
  /\ InitLink
  /\ InitInterrogator
  /\ InitWeakLink
  /\ InitEir
  /\ last = [op |-> "Init", issued |-> <<>>]

NameSpec == InitNameSpec /\ [][NextNames]_vars

\* One channel, its owner's thread and its link's thread.
InitChannelSpec ==
  Init /\ scan_enable = 0 /\ desired_inquiry_mode_ = "kStandard"

ChannelSpec == InitChannelSpec /\ [][NextChannel]_vars

\* The receive path of one channel: activation, PDUs from the link, the two
\* ways of closing and the delivery of callbacks, in a release build.
NextRx ==
  \/ \E d \in Dispatchers : ActivateWithDispatcher(d)
  \/ Deactivate
  \/ OnClosed
  \/ \E t \in {"owner", "link"} : RunOrPost(t)
  \/ \E traps, completes \in BOOLEAN :
        HandleRxPduWithin(MaxRxPdus, traps, completes)
  \/ RunLinkTask
  \/ RunDispatcherTask

InitRxSpec == InitChannelSpec /\ ~debug_asserts

RxSpec == InitRxSpec /\ [][NextRx]_vars

\* The connection manager alone, in a release build.
InitLeSpec == InitChannelSpec /\ ~debug_asserts

LeSpec == InitLeSpec /\ [][NextLe]_vars

\* The manager is there and the process runs.
ManagerLive == alive /\ mgr_fault = "none"

\* One manager from its construction to its destruction and beyond, with the
\* clients of discovery, the controller's Inquiry events, and the sessions
\* and command callbacks that outlive the manager.
NextLifetime ==
  \/ ManagerLive /\ Len(disc_log) < MaxLifetimeDiscoveries /\ RequestDiscovery
  \/ ManagerLive /\ \E s \in disc_owned : ReleaseDiscoverySession(s)
  \/ ManagerLive /\ \E status \in StatusCodes : InquiryCommandStatus(status)
  \/ ManagerLive /\ \E status \in StatusCodes : InquiryComplete(status)
  \/ ManagerLive /\ \E status \in StatusCodes : WriteInquiryModeComplete(status)
  \/ DestroyManager
  \/ \E kind \in {"kCommandStatus", "kInquiryComplete", "kWriteInquiryMode"} :
        DiscoveryEventAfterDestroy(kind)
  \/ \E s \in disc_owned, outcome \in NullDerefOutcomes :
        ReleaseDiscoverySessionAfterDestroy(s, outcome)

InitLifetimeSpec == Init /\ scan_enable = 0 /\ ~debug_asserts

LifetimeSpec == InitLifetimeSpec /\ [][NextLifetime]_vars

\* The local name and the discoverable mode of one manager, up to its
\* destruction and beyond.
NextNameUpdate ==
  \/ \E name \in LocalNames : UpdateLocalName(name)
  \/ \E status \in StatusCodes, outcome \in NullDerefOutcomes :
        WriteLocalNameComplete(status, outcome)
  \/ \E status \in StatusCodes, outcome \in NullDerefOutcomes :
        WriteExtendedInquiryResponseComplete(status, outcome)
  \/ ManagerLive /\ Len(scan_log) < MaxLifetimeDiscoverables /\ RequestDiscoverable
  \/ ManagerLive /\ \E s \in scan_owned : ReleaseDiscoverableSession(s)
  \/ mgr_fault = "none" /\ \E status \in StatusCodes : ScanCommandExecuted(status)
  \/ ManagerLive /\ ReadScanEnableCallback
  \/ ManagerLive /\ WriteScanEnableCallback
  \/ DestroyManager
  \/ ScanEventAfterDestroy
  \/ \E s \in scan_owned, outcome \in NullDerefOutcomes :
        ReleaseDiscoverableSessionAfterDestroy(s, outcome)

InitNameUpdateSpec ==
  Init /\ scan_enable = 0 /\ desired_inquiry_mode_ = "kStandard" /\ ~debug_asserts

NameUpdateSpec == InitNameUpdateSpec /\ [][NextNameUpdate]_vars

\* Inbound and outbound links of one connection manager, in a release build.
NextLink ==
  \/ \E link \in RemoteLinks : RegisterRemoteInitiatedLink(link)
  \/ \E p \in RemotePeers : Len(le_log) < MaxLinkConnects /\ Connect(p)
  \/ OnConnectResult(Success)
  \/ \E p \in RemotePeers, status \in LeStatusCodes :
        InterrogationComplete(p, status)
  \/ \E p \in RemotePeers : OnPeerDisconnect(p)
  \/ \E id \in 1..MaxConnects : MarkClosed(id)
  \/ TearDownBearers

InitLinkSpec == InitChannelSpec /\ ~debug_asserts

LinkSpec == InitLinkSpec /\ [][NextLink]_vars

\* The connection parameters of the peers of inbound links.
NextParams ==
  \/ \E link \in RemoteLinks :
        Len(le_log) < MaxParamLinks /\ RegisterRemoteInitiatedLink(link)
  \/ \E p \in RemotePeers, status \in LeStatusCodes :
        InterrogationComplete(p, status)
  \/ \E p \in RemotePeers, params \in PreferredParams :
        OnNewLEConnectionParams(p, params)
  \/ \E handle \in LinkHandles, status \in ConnUpdateStatusCodes,
        own \in BOOLEAN : OnLEConnectionUpdateComplete(handle, status, own)

InitParamSpec == InitChannelSpec /\ ~debug_asserts

ParamSpec == InitParamSpec /\ [][NextParams]_vars

\* Every command an interrogation can send.
IntCommands ==
  {IntCommand(i, op, 0) :
     i \in 1..MaxStarts,
     op \in {"kRemoteNameRequest", "kReadRemoteVersionInfo",
             "kReadRemoteSupportedFeatures"}}
  \cup {IntCommand(i, "kReadRemoteExtendedFeatures", page) :
          i \in 1..MaxStarts, page \in 1..MaxFeaturePage}

\* The interrogator, its callers and the controller's answers.
NextInterrogator ==
  \/ Start
  \/ \E c \in IntCommands, status \in IntStatusCodes :
        CommandComplete(c, status)

\* The peer device has extended feature pages up to any page, or none.
InitInterrogatorSpec ==
  /\ InitDiscovery /\ desired_inquiry_mode_ = "kStandard"
  /\ InitNames
  /\ InitScan /\ scan_enable = 0
  /\ InitChannel /\ ~debug_asserts
  /\ InitLe
  /\ InitLifetime
  /\ InitLink
  /\ InitInterrogatorFields
  /\ remote_last_page \in 0..MaxFeaturePage
  /\ InitWeakLink
  /\ InitEir
  /\ last = [op |-> "Init", issued |-> <<>>]

InterrogatorSpec == InitInterrogatorSpec /\ [][NextInterrogator]_vars

\* The inquiry-result events as the controller may deliver them, well formed
\* or not, with one discovery session live or none.
NextInquiryEvents ==
  \/ \E records \in SeqsUpTo(Addrs, MaxResponses),
        num_responses \in 0..MaxResponses, extra \in BOOLEAN,
        past \in ReadsPastPayload, accepted \in BOOLEAN :
       InquiryResultEvent(records, num_responses, extra, past, accepted)
  \/ \E a \in Addrs, sizeOk \in BOOLEAN, accepted \in BOOLEAN :
       ExtendedInquiryResult(a, sizeOk, accepted)
  \/ \E c \in rnr_cmds, status \in StatusCodes : RemoteNameCommandStatus(c, status)
  \/ \E c \in rnr_cmds, status \in StatusCodes : RemoteNameRequestComplete(c, status)

InquiryEventSpec == InitNameSpec /\ [][NextInquiryEvents]_vars

\* One channel and its link, which may be destroyed at any time, in a
\* release build.
NextWeakLink ==
  \/ \E d \in Dispatchers : ActivateWithDispatcher(d)
  \/ Deactivate
  \/ OnClosed
  \/ \E t \in {"owner", "link"} : RunOrPost(t)
  \/ \E traps, accepted \in BOOLEAN : Send(traps, accepted)
  \/ SignalLinkError
  \/ UpgradeSecurity
  \/ LinkValidAtRun /\ RunLinkTask
  \/ LinkValidAtRun /\ RunDefaultTask
  \/ DestroyLink
  \/ RunLinkTaskAfterDestroy
  \/ RunDefaultTaskAfterDestroy

InitWeakLinkSpec == InitChannelSpec /\ ~debug_asserts

WeakLinkSpec == InitWeakLinkSpec /\ [][NextWeakLink]_vars

\* UpdateEIRResponseData as a function of the length of the name.
NextEir == UpdateEIRResponseData

InitEirSpec ==
  /\ InitDiscovery /\ desired_inquiry_mode_ = "kStandard"
  /\ InitNames
  /\ InitScan /\ scan_enable = 0
  /\ InitChannel /\ ~debug_asserts
  /\ InitLe
  /\ InitLifetime
  /\ InitLink
  /\ InitInterrogator
  /\ InitWeakLink
  /\ InitEirFields
  /\ eir_name_length \in 0..MaxNameLength
  /\ last = [op |-> "Init", issued |-> <<>>]

EirSpec == InitEirSpec /\ [][NextEir]_vars

(***************************************************************************)
(* Claims about discovery                                                  *)
(***************************************************************************)
InquiryOutstanding == inq_await_status + inq_running

\* The queued requests that waited for the same Command-Status as r.
Batch(r) ==
  {q \in DOMAIN disc_log :
     disc_log[q].queued /\ disc_log[q].batch = disc_log[r].batch}

First(S) == CHOOSE q \in S : \A p \in S : q <= p

\* C1: N >= 1 RequestDiscovery calls made while no Inquiry has started (no
\* live and no zombie session) send exactly one Inquiry command between the
\* first call and the Command-Status that answers it, and that Command-Status
\* invokes each of the N callbacks exactly once: all with success and
\* pairwise distinct non-null sessions, or all with the same failure status
\* and a null session.
C1_CoalescedDiscoveryRequests ==
  \A r \in DOMAIN disc_log : disc_log[r].queued =>
    LET f == First(Batch(r)) e == disc_log[r] IN
    /\ disc_log[f].inqAfter = disc_log[f].inqBefore + 1
    /\ e.inqAfter = disc_log[f].inqAfter
    /\ Count(pending_discovery_, r) + e.calls = 1
    /\ e.calls = disc_log[f].calls
    /\ e.calls = 1 =>
         /\ e.inqAtResolve = disc_log[f].inqAfter
         /\ e.status = disc_log[f].status
         /\ e.status \in StatusCodes
         /\ (e.status = Success) <=> (e.session # NullSession)
         /\ \A q \in Batch(r) \ {r} :
              e.session # NullSession => disc_log[q].session # e.session

C1_Witness ==
  \E r \in DOMAIN disc_log :
    /\ Cardinality(Batch(r)) >= 2
    /\ \A q \in Batch(r) : disc_log[q].calls = 1 /\ disc_log[q].status = Success

\* C2: over every interleaving of RequestDiscovery calls, session releases
\* and HCI events, at most one Inquiry command sequence (from the submission
\* of the Inquiry command to its failed status or its Inquiry-Complete) is
\* outstanding.
C2_AtMostOneInquiry == InquiryOutstanding <= 1

C2_Witness ==
  /\ inq_running = 1
  /\ n_inquiry >= 2
  /\ zombie_discovering_ # {}
  /\ last.op = "RequestDiscovery"

\* C3: whenever a DiscoverySession is live, an Inquiry is running or an
\* Inquiry command is in flight.
C3_LiveSessionHasInquiry == discovering_ # {} => InquiryOutstanding >= 1

\* C4: releasing a live session moves it from the live set to the zombie set
\* and sends no command (no Inquiry-Cancel), also when it was the last live
\* session; a zombie never becomes live again and is inserted once; the
\* zombie set loses members only in the Inquiry-Complete handler, which
\* empties it.
C4_ZombieStep ==
  /\ \A s \in zombie_discovering_' \ zombie_discovering_ :
       /\ last'.op = "ReleaseDiscoverySession" /\ last'.session = s
       /\ s \in discovering_ /\ s \notin discovering_'
       /\ s \in disc_owned /\ s \notin disc_owned'
  /\ (last'.op = "ReleaseDiscoverySession" /\ last'.wasLive) =>
       /\ zombie_discovering_' = zombie_discovering_ \cup {last'.session}
       /\ discovering_' = discovering_ \ {last'.session}
       /\ last'.issued = <<>>
       /\ UNCHANGED <<inq_await_status, inq_running, n_inquiry>>
  /\ \A s \in zombie_discovering_ : s \notin discovering_'
  /\ zombie_discovering_ \ zombie_discovering_' # {} =>
       /\ last'.op = "InquiryComplete"
       /\ zombie_discovering_' = {}

C4_ZombieLifecycle == [][C4_ZombieStep]_vars

C4_Witness ==
  /\ last.op = "ReleaseDiscoverySession"
  /\ last.wasLive
  /\ discovering_ = {}
  /\ zombie_discovering_ # {}
  /\ inq_running = 1

ResultOps == {"InquiryResult", "ExtendedInquiryResult"}

OutstandingFor(id) == {c \in rnr_cmds : c.peer = id}

\* C6: a well-formed inquiry result naming an unknown address leaves exactly
\* one (new) peer for that address and calls SendExclusiveCommand with one
\* Remote-Name-Request for it; a result for a peer whose request is still
\* outstanding (neither completed nor failed) issues none, so no peer ever
\* has two requests outstanding.
C6_OneNameRequestPerPeer ==
  /\ \A id \in 1..n_peer : Cardinality(OutstandingFor(id)) <= 1
  /\ (last.op \in ResultOps /\ ~last.dropped) =>
       /\ \A a \in last.unknown :
            /\ Cardinality(FindByAddress(cache_, a)) = 1
            /\ \A p \in FindByAddress(cache_, a) :
                 /\ p.id > n_peer - Cardinality(last.unknown)
                 /\ Count(last.rnr, p.id) = 1
       /\ Cardinality(cache_) = Cardinality({p \in cache_ : p.id \notin last.created})
                                  + Cardinality(last.unknown)
       /\ \A id \in last.inflight : Count(last.rnr, id) = 0

C6_Witness ==
  /\ last.op \in ResultOps
  /\ ~last.dropped
  /\ last.unknown = {}
  /\ last.accepted
  /\ \E p \in cache_ : /\ p.addr \in last.addrs /\ ~p.named
                       /\ p.id \in last.inflight
                       /\ \E c \in OutstandingFor(p.id) : c.acked

(***************************************************************************)
(* Claims about discoverable mode                                          *)
(***************************************************************************)
ResolvedBy(r) == scan_log[r].by

\* C7: a RequestDiscoverable made with no discoverable session and inquiry
\* scan disabled gets its session only from the completion of a
\* Write-Scan-Enable that set the Inquiry bit (issued after a
\* Read-Scan-Enable), with inquiry scan enabled by then; releasing the last
\* discoverable session submits a Read-Scan-Enable, and the read callback
\* that finds no session, no request and the bit set submits a
\* Write-Scan-Enable with the Inquiry bit cleared.
C7_DiscoverableScenario ==
  /\ \A r \in DOMAIN scan_log :
       (scan_log[r].cold /\ scan_log[r].session # NullSession) =>
          /\ ResolvedBy(r).op = "kWriteScanEnable"
          /\ HasInquiryBit(ResolvedBy(r).value)
          /\ HasInquiryBit(scan_log[r].scanAtResolve)
  /\ (last.op = "ReleaseDiscoverableSession" /\ discoverable_ = {}) =>
       /\ Len(last.issued) = 1
       /\ last.issued[1].op = "kReadScanEnable"
  /\ (/\ last.op = "ReadScanEnableCallback" /\ last.status = Success
      /\ ~last.hadSession /\ last.pendingBefore = <<>>
      /\ HasInquiryBit(last.read)) =>
       /\ Len(last.issued) = 1
       /\ last.issued[1].op = "kWriteScanEnable"
       /\ last.issued[1].value = ClearInquiryBit(last.read)

\* C8: the read callback submits a Write-Scan-Enable exactly when the read
\* succeeded and the Inquiry bit it returned differs from the wanted one
\* (a discoverable session is live or a request is pending); every request is
\* resolved exactly once; a completion that resolves requests resolves all
\* that are queued, with its own status (the read's when it submits no
\* write, the write's otherwise); a session is delivered iff the status is
\* success.
C8_ScanWriteAndResolution ==
  /\ \A r \in DOMAIN scan_log :
       LET e == scan_log[r] IN
       /\ Count(pending_discoverable_, r) + e.calls = 1
       /\ e.calls = 1 =>
            /\ e.status \in StatusCodes
            /\ (e.status = Success) <=> (e.session # NullSession)
       /\ \A q \in DOMAIN scan_log :
            (/\ e.calls = 1 /\ scan_log[q].calls = 1
             /\ e.by.seq # 0 /\ e.by.seq = scan_log[q].by.seq) =>
               e.status = scan_log[q].status
  /\ last.op = "ReadScanEnableCallback" =>
       LET wanted == last.hadSession \/ last.pendingBefore # <<>>
           wrote == last.issued # <<>> IN
       /\ wrote <=> (last.status = Success /\ HasInquiryBit(last.read) # wanted)
       /\ wrote =>
            /\ Len(last.issued) = 1
            /\ last.issued[1].op = "kWriteScanEnable"
            /\ pending_discoverable_ = last.pendingBefore
       /\ ~wrote =>
            /\ pending_discoverable_ = <<>>
            /\ \A r \in Range(last.pendingBefore) :
                 /\ scan_log[r].status = last.status
                 /\ scan_log[r].by.seq = last.seq
  /\ last.op = "WriteScanEnableCallback" =>
       /\ pending_discoverable_ = <<>>
       /\ \A r \in Range(last.pendingBefore) :
            /\ scan_log[r].status = last.status
            /\ scan_log[r].by.seq = last.seq

C8_Witness ==
  /\ last.op = "WriteScanEnableCallback"
  /\ Len(last.pendingBefore) >= 2
  /\ last.status = Success
  /\ \A r \in Range(last.pendingBefore) : scan_log[r].session # NullSession

(***************************************************************************)
(* Claims about l2cap channels                                             *)
(***************************************************************************)
ChannelOps ==
  {"Activate", "Deactivate", "OnClosed", "RunOrPost", "Send", "HandleRxPdu",
   "SignalLinkError", "UpgradeSecurity", "RunLinkTask", "RunDefaultTask",
   "RunDispatcherTask"}

\* C9: Send on a channel that is not Active (deactivated, closed by OnClosed,
\* or never activated) returns false, hands nothing to the TX engine, builds
\* and posts no task, runs no callback and leaves the channel's fields alone.
C9_SendOnInactiveChannel ==
  (last.op = "Send" /\ ~(last.pre.link_ /\ last.pre.active_)) =>
     /\ last.ret = "false"
     /\ ~crashed
     /\ last.issued = <<>>
     /\ ChannelFields = last.pre
     /\ ChannelEffects = last.before

ChannelStateOf(f) ==
  IF ~f.link_ THEN "Closed" ELSE IF f.active_ THEN "Active" ELSE "Inactive"

\* C10: the channel moves only Inactive -> Active -> Closed; Deactivate and
\* OnClosed leave it Closed from either state; once Closed it stays Closed
\* (and is never active), and a Deactivate or OnClosed on a Closed channel
\* changes no field, builds and posts no task and runs no callback.
C10_Step ==
  LET from == ChannelStateOf(ChannelFields)
      to == ChannelStateOf(ChannelFields')
      closing == /\ last'.op \in {"Deactivate", "OnClosed"}
                 /\ n_close' = n_close + 1
  IN
  /\ from = "Closed" => to = "Closed"
  /\ from = "Active" => to \in {"Active", "Closed"}
  /\ ~link_' => ~active_'
  /\ closing => to = "Closed"
  /\ (closing /\ from = "Closed") =>
        /\ ChannelFields' = ChannelFields
        /\ ChannelEffects' = ChannelEffects
        /\ last'.issued = <<>>
        /\ UNCHANGED <<chanFields, chanEnv>>

C10_ChannelLifecycle == [][C10_Step]_vars

C10_Witness ==
  /\ last.op \in {"Deactivate", "OnClosed"}
  /\ ~last.pre.link_
  /\ ~rx_engine_
  /\ n_activate = MaxActivates
  /\ n_close = MaxCloses

DeliveredRx == SelectSeq(delivered, LAMBDA e : e.cb = "rx")

\* C11: the RX callback sees the SDUs in the order in which their completing
\* PDUs arrived (SDUs are numbered in that order), also when some were queued
\* before activation and others completed after it.
C11_RxOrder ==
  \A i, j \in 1..Len(DeliveredRx) :
     i < j => DeliveredRx[i].sdu < DeliveredRx[j].sdu

\* The closed-callback tasks that exist: built, posted or already run.
ClosedTasks ==
  Len(SelectSeq(owner_job \o link_job \o chan_dispatcher_q,
                LAMBDA t : t.kind = "closed"))
  + Len(SelectSeq(delivered, LAMBDA e : e.cb = "closed"))

ClosedDelivered == Len(SelectSeq(delivered, LAMBDA e : e.cb = "closed"))

Quiescent ==
  owner_job = NoTask /\ link_job = NoTask /\ chan_dispatcher_q = <<>>

\* C12 as stated: once a channel that was activated has been closed by
\* Deactivate and OnClosed in either order and every task has run, the
\* closed callback has been delivered exactly once.
C12_ClosedExactlyOnce ==
  (~link_ /\ ~rx_engine_ /\ n_close = MaxCloses /\ Quiescent)
     => ClosedDelivered = 1

\* C12 amended: the closed callback is delivered at most once; an OnClosed
\* that finds the channel Active builds exactly one delivery of the
\* registered closed callback; a Deactivate that finds the channel Active
\* drops the callback, and no delivery of it exists then or later.
C12_ClosedAtMostOnce ==
  /\ ClosedTasks <= 1
  /\ (last.op = "OnClosed" /\ last.pre.link_ /\ last.pre.active_) =>
        /\ ClosedTasks = 1
        /\ link_job # NoTask
        /\ link_job[1].kind = "closed"
        /\ link_job[1].func = last.pre.closed_cb_
        /\ link_job[1].func # NoCallback
  /\ (last.op = "Deactivate" /\ last.pre.link_ /\ last.pre.active_) =>
        ClosedTasks = 0
  /\ (~link_ /\ ~rx_engine_ /\ closed_cb_ = NoCallback /\ rx_cb_ = NoCallback)
        => ClosedTasks = 0
  /\ (Quiescent /\ ClosedTasks = 1) => ClosedDelivered = 1

C12_Witness ==
  /\ last.op = "Deactivate"
  /\ ~last.pre.link_
  /\ ClosedTasks = 1
  /\ link_job # NoTask

\* C13: an Activate on a channel that is already Active, or whose link is
\* gone, returns false and changes nothing: callbacks, dispatcher, pending
\* queue and every other field are as before, no task is built or posted.
C13_ActivateOnce ==
  (last.op = "Activate" /\ (last.pre.active_ \/ ~last.pre.link_)) =>
     /\ last.ret = "false"
     /\ ~crashed
     /\ ChannelFields = last.pre
     /\ ChannelEffects = last.before

(***************************************************************************)
(* Claims about the LE connection manager                                  *)
(***************************************************************************)
\* The callbacks a step has resolved.
LeNotified == {r \in DOMAIN le_log : le_log'[r].calls # le_log[r].calls}

\* The terminal status and reference agree: a reference with kSuccess, a
\* null reference with a failure.
LeOutcomeOk(e) ==
  /\ e.calls = 1
  /\ e.status \in LeStatusCodes
  /\ (e.status = Success) = (e.ref # NullRef)

C14_Step ==
  \* a Connect for a peer whose request is pending joins that request:
  \* no new entry, no new Create-Connection
  /\ (last'.op = "Connect" /\ last'.peer \in DOMAIN pending_requests_) =>
        /\ last'.ret
        /\ last'.issued = <<>>
        /\ le_attempts' = le_attempts
        /\ connector_pending' = connector_pending
        /\ pending_requests_' =
              [pending_requests_ EXCEPT
                 ![last'.peer] = Append(@, Len(le_log'))]
  \* a Create-Connection goes to a pending peer that has none in flight
  /\ le_attempts' # le_attempts =>
        /\ Len(le_attempts') = Len(le_attempts) + 1
        /\ connector_pending' = le_attempts'[Len(le_attempts')]
        /\ connector_pending' \in DOMAIN pending_requests_'
        /\ connector_pending' # connector_pending
        /\ connector_pending = NoPeer \/ last'.op = "OnConnectResult"
  \* the callbacks of one request are resolved together, once, alike
  /\ \A r \in LeNotified :
        /\ le_log[r].calls = 0
        /\ LeOutcomeOk(le_log'[r])
        /\ \A q \in LeNotified :
              /\ le_log'[q].status = le_log'[r].status
              /\ le_log'[q].peer = le_log'[r].peer
              /\ (q # r /\ le_log'[r].ref # NullRef) =>
                    le_log'[q].ref # le_log'[r].ref
  /\ last'.op = "OnConnectResult" =>
        /\ last'.peer \notin DOMAIN pending_requests_'
        /\ last'.status # Success =>
              LeNotified = {last'.callbacks[k] : k \in DOMAIN last'.callbacks}
        /\ last'.status = Success =>
              /\ LeNotified = {}
              /\ connections_'[last'.peer].waiting = last'.callbacks
  /\ (last'.op = "InterrogationComplete" /\ last'.peer \in DOMAIN connections_) =>
        LeNotified = {connections_[last'.peer].waiting[k] :
                        k \in DOMAIN connections_[last'.peer].waiting}

\* C14: Connect calls made while a request for the same peer is pending share
\* that request's PendingRequestData and its single Create-Connection
\* request, and when the request is resolved every one of their callbacks is
\* invoked exactly once, all with the same status: all with a reference of
\* their own on success, all with a null reference on failure.
C14_CoalescedConnect == [][C14_Step]_vars

\* Two callbacks coalesced on one pending request have been resolved by the
\* failure of the single attempt made for it.
C14_Witness ==
  /\ last.op = "OnConnectResult"
  /\ last.status # Success
  /\ Len(le_attempts) = 1
  /\ \E k \in DOMAIN last.callbacks :
        /\ le_log[last.callbacks[k]].via = "pending"
        /\ le_log[last.callbacks[k]].calls = 1


C15_Step ==
  /\ (last'.op = "Connect" /\ last'.peer \notin LePeers) =>
        /\ ~last'.ret
        /\ last'.issued = <<>>
        /\ LeFields' = LeFields
        /\ le_log'[Len(le_log')] = NewLeLogEntry(last'.peer, FALSE, "unknown")
  /\ \A r \in DOMAIN le_log' : ~le_log'[r].ret => le_log'[r].calls = 0

\* C15: Connect for a peer id the peer directory does not know returns false
\* at once and changes nothing: no PendingRequestData, no connection attempt,
\* no posted task, and its callback is never invoked.
C15_UnknownPeerRejected == [][C15_Step]_vars

\* Connect has just refused an unknown peer while another request was
\* pending and in flight.
C15_Witness ==
  /\ last.op = "Connect"
  /\ last.peer = UnknownPeer
  /\ ~last.ret
  /\ connector_pending # NoPeer
  /\ le_log[Len(le_log)].calls = 0

\* The position of a peer in the order of creation of the pending entries.
PendingRank(order, p) == CHOOSE k \in DOMAIN order : order[k] = p

\* C16: at most one outbound connection attempt is in flight, and when the
\* connector becomes free the peer attempted next is the pending peer whose
\* PendingRequestData was created first.
C16_AttemptsInRequestOrder ==
  \/ last.op # "OnConnectResult"
  \/ last.issued = <<>>
  \/ \A q \in last.pendingBefore \ {last.peer} :
        PendingRank(last.orderBefore, connector_pending)
          <= PendingRank(last.orderBefore, q)

C17_Step ==
  /\ \A r \in LeNotified :
        le_log'[r].ref # NullRef =>
          LET p == le_log'[r].peer IN
          /\ p \in DOMAIN connections_ /\ p \in DOMAIN connections_'
          /\ connections_'[p].interrogated
          /\ le_log'[r].ref \in connections_'[p].refs
          /\ \/ connections_[p].interrogated
             \/ last'.op = "InterrogationComplete" /\ last'.peer = p
                  /\ last'.status = Success
  /\ (last'.op = "Connect" /\ last'.peer \in DOMAIN connections_
        /\ ~connections_[last'.peer].interrogated) =>
        /\ le_posted' = le_posted
        /\ LeNotified = {}
        /\ connections_'[last'.peer].waiting =
              Append(connections_[last'.peer].waiting, Len(le_log'))

\* C17: a Connect callback gets a LowEnergyConnectionRef only once the
\* interrogation of that connection is over: the callbacks of a new
\* connection get theirs in the step that completes the interrogation, and a
\* Connect for a peer that is connected but still being interrogated waits
\* for that step.
C17_RefAfterInterrogation == [][C17_Step]_vars

\* A Connect made while the connection was being interrogated has received
\* its reference at the end of the interrogation.
C17_Witness ==
  /\ last.op = "InterrogationComplete"
  /\ last.status = Success
  /\ \E k \in DOMAIN last.callbacks :
        /\ le_log[last.callbacks[k]].via = "interrogating"
        /\ le_log[last.callbacks[k]].ref # NullRef
  /\ \E k \in DOMAIN last.callbacks :
        /\ le_log[last.callbacks[k]].via = "new"
        /\ le_log[last.callbacks[k]].ref # NullRef

\* How often x occurs in seq.
Occurrences(seq, x) == Cardinality({k \in DOMAIN seq : seq[k] = x})

C18_Step ==
  /\ (last'.op = "OnConnectResult" /\ last'.status # Success) =>
        /\ last'.peer \notin DOMAIN pending_requests_'
        /\ last'.peer \notin DOMAIN connections_'
        /\ \A k \in DOMAIN last'.callbacks :
              /\ le_log[last'.callbacks[k]].calls = 0
              /\ le_log'[last'.callbacks[k]].calls = 1
              /\ le_log'[last'.callbacks[k]].status = last'.status
              /\ le_log'[last'.callbacks[k]].ref = NullRef
        /\ connector_pending' # last'.peer
        /\ IF DOMAIN pending_requests_' = {}
             THEN /\ connector_pending' = NoPeer
                  /\ le_attempts' = le_attempts
                  /\ last'.issued = <<>>
             ELSE /\ connector_pending' \in DOMAIN pending_requests_'
                  /\ le_attempts' = Append(le_attempts, connector_pending')
                  /\ last'.issued =
                        <<[op |-> "CreateConnection", peer |-> connector_pending']>>
  \* an attempt is made once for each request a Connect call has created
  /\ \A p \in LePeers :
        Occurrences(le_attempts', p) <=
          Cardinality({r \in DOMAIN le_log' :
                         le_log'[r].peer = p /\ le_log'[r].via = "new"})

\* C18: when a connection attempt fails, a request timeout included, its
\* PendingRequestData is removed, every callback of the request gets that
\* failure with a null reference, the peer is not attempted again unless
\* Connect is called again, and the next pending peer, if any, is attempted.
C18_FailedAttempt == [][C18_Step]_vars

\* A request with two callbacks has timed out and the next pending peer is
\* being attempted.
C18_Witness ==
  /\ last.op = "OnConnectResult"
  /\ last.status = "kConnectionTimeout"
  /\ Len(last.callbacks) = 2
  /\ Len(le_attempts) = 2
  /\ connector_pending # NoPeer
  /\ \A k \in DOMAIN last.callbacks :
        le_log[last.callbacks[k]].status = "kConnectionTimeout"

C19_Step ==
  \* first the connection leaves the map ...
  /\ last'.op \in {"Disconnect", "OnPeerDisconnect"} =>
        /\ last'.peer \in DOMAIN connections_
        /\ last'.peer \notin DOMAIN connections_'
        /\ le_teardown'[1].refs = connections_[last'.peer].refs
        /\ le_refs' = le_refs
        /\ le_bearers' = le_bearers
  \* ... so that a Connect from inside a close callback does not find it
  /\ le_teardown' # <<>> => le_teardown'[1].peer \notin DOMAIN connections_'
  /\ (last'.op = "Connect" /\ le_teardown # <<>>
        /\ last'.peer = le_teardown[1].peer) =>
        /\ le_log'[Len(le_log')].via \in {"new", "pending"}
        /\ le_posted' = le_posted
  \* ... then the references are invalidated, the bearers still up ...
  /\ last'.op = "MarkClosed" =>
        /\ last'.peer \notin DOMAIN connections_
        /\ last'.peer \in le_bearers /\ last'.peer \in le_bearers'
        /\ le_refs[last'.ref].active /\ ~le_refs'[last'.ref].active
  \* ... and the bearers go last
  /\ last'.op = "TearDownBearers" =>
        /\ \A id \in last'.refs : ~le_refs[id].active /\ le_refs[id].closed = 1
        /\ last'.peer \notin le_bearers'
        /\ last'.peer \notin DOMAIN connections_

\* C19: on a peer disconnect or a clean-up the connection is first removed
\* from the connection map, and a lookup made while the clean-up goes on does
\* not find it; then every outstanding reference is invalidated and its close
\* callback fired; only then are the L2CAP and GATT bearers torn down.
C19_TeardownOrder == [][C19_Step]_vars

\* The bearers have just gone, after the close callback of a reference had
\* called Connect for the same peer and started a new request for it.
C19_Witness ==
  /\ last.op = "TearDownBearers"
  /\ last.refs # {}
  /\ last.peer \in DOMAIN pending_requests_
  /\ \E r \in DOMAIN le_log :
        /\ le_log[r].peer = last.peer
        /\ le_log[r].via = "new"
        /\ r > 1

C20_Step ==
  /\ last'.op = "MarkClosed" =>
        /\ le_refs[last'.ref].active /\ le_refs[last'.ref].closed = 0
        /\ ~le_refs'[last'.ref].active /\ le_refs'[last'.ref].closed = 1
        /\ le_refs[last'.ref].peer = last'.peer
        /\ last'.peer \notin DOMAIN connections_
        /\ \A id \in DOMAIN le_refs \ {last'.ref} : le_refs'[id] = le_refs[id]
  \* one pass: between the erasure and the end of the clean-up only the
  \* references are notified and their callbacks may call Connect
  /\ le_teardown # <<>> =>
        last'.op \in {"MarkClosed", "Connect", "TearDownBearers"}
  /\ last'.op = "TearDownBearers" =>
        /\ le_teardown' = <<>>
        /\ \A id \in last'.refs :
              /\ le_refs'[id].peer = last'.peer
              /\ ~le_refs'[id].active
              /\ le_refs'[id].closed = 1
  \* a reference is active exactly while its connection is in the map or
  \* its notification is still to come
  /\ \A id \in DOMAIN le_refs' :
        /\ le_refs'[id].closed <= 1
        /\ le_refs'[id].active = (le_refs'[id].closed = 0)
        /\ le_refs'[id].active =
              \/ /\ le_refs'[id].peer \in DOMAIN connections_'
                 /\ id \in connections_'[le_refs'[id].peer].refs
              \/ /\ le_teardown' # <<>>
                 /\ id \in le_teardown'[1].refs

C30_Step ==
  last'.op \in {"SignalLinkError", "UpgradeSecurity"} =>
    /\ delivered' = delivered
    /\ chan_dispatcher_q' = chan_dispatcher_q
    /\ owner_job' = owner_job /\ link_job' = link_job
    /\ default_dispatcher_q' = default_dispatcher_q
    /\ IF link_ /\ active_
         THEN /\ Len(link_dispatcher_q') = Len(link_dispatcher_q) + 1
              /\ last'.issued = <<link_dispatcher_q'[Len(link_dispatcher_q')]>>
         ELSE /\ link_dispatcher_q' = link_dispatcher_q
              /\ last'.issued = <<>>

\* C30: SignalLinkError and UpgradeSecurity on an Active channel run nothing
\* inline and post exactly one task each, on the link's own dispatcher; on a
\* channel that is inactive or whose link is gone they post nothing.
C30_LinkRequestsOnLinkDispatcher == [][C30_Step]_vars

(***************************************************************************)
(* Claims about the manager's destruction and the local name               *)
(***************************************************************************)
C26_Step ==
  /\ last'.op = "DestroyManager" =>
        /\ event_handlers = EventHandlers /\ event_handlers' = {}
        /\ discovering_ \cap disc_errored = {}
        /\ disc_errored' = disc_errored \cup discovering_
        /\ zombie_discovering_ \cap disc_errored' = {}
        /\ discovering_' = {}
        /\ last'.issued = <<>>
        /\ n_inquiry' = n_inquiry
        /\ inq_await_status' = inq_await_status
        /\ mode_cmds' = mode_cmds
  \* and nothing is sent or notified once the manager is gone
  /\ ~alive =>
        /\ last'.issued = <<>>
        /\ disc_errored' = disc_errored
        /\ n_inquiry' = n_inquiry
        /\ discovering_' = {}
        /\ event_handlers' = {}

\* C26: destroying the manager removes its inquiry-result event handlers,
\* invokes the error callback of every live discovery session once and of no
\* zombie session, leaves the live set empty and sends no HCI command then
\* or later: no Inquiry restart, no Inquiry-Cancel.
C26_DestructionInvalidatesSessions == [][C26_Step]_vars

\* The manager has just been destroyed while an inquiry was running, with a
\* live session and a zombie session.
C26_Witness ==
  /\ last.op = "DestroyManager"
  /\ last.notified # {}
  /\ last.zombies # {}
  /\ inq_running > 0
  /\ last.notified \subseteq disc_errored

\* A step that releases a session the caller still owned, after the manager
\* was destroyed.
C29_ReleaseAfterDestroy ==
  /\ ~alive
  /\ last'.op \in {"ReleaseDiscoverySession", "ReleaseDiscoverableSession"}

\* C29: releasing a DiscoverySession or a DiscoverableSession after the
\* manager has been destroyed is a no-op: the destroyed manager is not
\* dereferenced and no HCI command is sent.
C29_ReleaseAfterTeardownIsNoOp ==
  [][C29_ReleaseAfterDestroy =>
        /\ mgr_fault' = "none"
        /\ last'.issued = <<>>
        /\ n_inquiry' = n_inquiry
        /\ scan_cmdq' = scan_cmdq]_vars

\* A step that delivers the completion of an HCI command the manager had
\* sent, after the manager was destroyed.
C28_CompletionAfterDestroy ==
  /\ ~alive
  /\ last'.op \in {"WriteLocalNameComplete",
                   "WriteExtendedInquiryResponseComplete",
                   "ScanEventAfterDestroy", "DiscoveryEventAfterDestroy"}

\* C28: every HCI command callback of the manager tests its WeakPtr before
\* using it, so a completion that arrives after the manager was destroyed
\* dereferences nothing and reads and writes no state of the manager.
C28_CallbacksCheckSelf ==
  [][C28_CompletionAfterDestroy =>
        /\ mgr_fault' = "none"
        /\ local_name_' = local_name_
        /\ last'.issued = <<>>
        /\ discoverable_' = discoverable_
        /\ pending_discoverable_' = pending_discoverable_]_vars

\* What one step of the local-name update must do to request r == last'.cb.
C27_Step ==
  /\ last'.op = "UpdateLocalName" =>
        /\ last'.issued = <<"kWriteLocalName">>
        /\ local_name_' = local_name_
  /\ (last'.op = "WriteLocalNameComplete" /\ name_cmds' # name_cmds) =>
        LET r == last'.cb IN
        IF IsError(last'.status)
          THEN /\ last'.issued = <<>>
               /\ name_log'[r].calls = name_log[r].calls + 1
               /\ name_log'[r].status = last'.status
               /\ name_log'[r].issued = <<"kWriteLocalName">>
               /\ local_name_' = local_name_
          ELSE /\ last'.issued = <<"kWriteExtendedInquiryResponse">>
               /\ name_log'[r].issued =
                     <<"kWriteLocalName", "kWriteExtendedInquiryResponse">>
               /\ name_log'[r].calls = name_log[r].calls
               /\ local_name_' = local_name_
  /\ (last'.op = "WriteExtendedInquiryResponseComplete"
        /\ name_cmds' # name_cmds) =>
        LET r == last'.cb IN
        /\ last'.issued = <<>>
        /\ name_log'[r].calls = name_log[r].calls + 1
        /\ name_log'[r].status = last'.status
        /\ local_name_' = IF IsError(last'.status) THEN local_name_
                          ELSE name_log[r].name
  /\ \A r \in DOMAIN name_log' : name_log'[r].calls <= 1
  /\ local_name_' # local_name_ =>
        last'.op = "WriteExtendedInquiryResponseComplete"

\* C27: UpdateLocalName issues Write-Local-Name and, only after it succeeded,
\* Write-Extended-Inquiry-Response; a failed Write-Local-Name goes to the
\* callback and the second command is not issued.  The callback is invoked
\* exactly once, by the completion that ends the sequence, and local_name_
\* changes only when both commands succeeded.
C27_SequentialNameUpdate == [][C27_Step]_vars

(***************************************************************************)
(* Claims about inbound links and connection parameters                    *)
(***************************************************************************)
\* No two connections of the map are over links with the same handle.
C21_HandlesDistinct ==
  \A p, q \in DOMAIN connections_ :
     p # q => connections_[p].handle # connections_[q].handle

\* A registration of a link whose handle is already registered.
C21_Step ==
  (/\ last'.op = "RegisterRemoteInitiatedLink"
   /\ last'.link.handle \in last'.registered) =>
      /\ connections_' = connections_
      /\ le_log'[last'.cb].calls = 1
      /\ le_log'[last'.cb].status # Success
      /\ le_log'[last'.cb].ref = NullRef

\* C21: RegisterRemoteInitiatedLink for a link handle that is already
\* registered is refused: the callback gets a failure and no reference, the
\* connection registered first stays as it was, and the connection map never
\* holds two connections with the same link handle.
C21_DuplicateHandleRefused == [][C21_Step /\ C21_HandlesDistinct']_vars

\* A link was just refused for its handle alone: the handle belongs to the
\* connection of another peer, and its own peer has no connection.
C21_Witness ==
  /\ last.op = "RegisterRemoteInitiatedLink"
  /\ last.link.handle \in last.registered
  /\ last.link.peer \notin DOMAIN connections_
  /\ connections_ # <<>>
  /\ le_log[last.cb].calls = 1
  /\ le_log[last.cb].status # Success

\* The L2CAP requests sent and the HCI updates the controller failed with
\* kUnsupportedRemoteFeature, as indexes of le_requests.
C22_Retries == {k \in DOMAIN le_requests : le_requests[k].via = "l2cap"}

C22_Unsupported ==
  {k \in DOMAIN le_requests :
     /\ le_requests[k].via = "hci"
     /\ le_requests[k].answer = "kUnsupportedRemoteFeature"}

C22_Step ==
  /\ last'.op = "OnNewLEConnectionParams" =>
        /\ le_params'[last'.peer] = last'.params
        /\ IF connections_[last'.peer].interrogated
             THEN /\ Len(last'.issued) = 1
                  /\ last'.issued[1].via = "hci"
                  /\ last'.issued[1].handle = connections_[last'.peer].handle
                  /\ last'.issued[1].params = last'.params
             ELSE last'.issued = <<>>
  /\ (last'.op = "OnLEConnectionUpdateComplete" /\ last'.own) =>
        IF last'.status = "kUnsupportedRemoteFeature"
          THEN /\ Len(last'.issued) = 1
               /\ last'.issued[1].via = "l2cap"
               /\ last'.issued[1].handle = last'.handle
          ELSE last'.issued = <<>>

\* C22: new preferred parameters are cached, and requested with an HCI LE
\* Connection Update only if the connection has been interrogated; an
\* update the controller fails with kUnsupportedRemoteFeature is tried
\* again, once, with an L2CAP Connection Parameter Update Request, and after
\* any other status no L2CAP request is sent.
C22_UpdateWithFallback ==
  [][/\ C22_Step
     /\ Cardinality(C22_Retries') = Cardinality(C22_Unsupported')]_vars

(***************************************************************************)
(* Claims about the interrogator                                           *)
(***************************************************************************)
\* The commands interrogation i has sent, in their order.
IssuedBy(i) == SelectSeq(int_issued, LAMBDA c : c.i = i)

IsPrefix(a, b) == Len(a) <= Len(b) /\ a = SubSeq(b, 1, Len(a))

\* Every command of an interrogation of a peer of which nothing is known.
FullInterrogation(i) ==
  <<IntCommand(i, "kRemoteNameRequest", 0),
    IntCommand(i, "kReadRemoteVersionInfo", 0),
    IntCommand(i, "kReadRemoteSupportedFeatures", 0)>>
  \o [k \in 1..remote_last_page |->
        IntCommand(i, "kReadRemoteExtendedFeatures", k)]

\* C23: Start on a peer with no name, version or features sends
\* Remote-Name-Request, Read-Remote-Version-Info,
\* Read-Remote-Supported-Features and then Read-Remote-Extended-Features
\* for pages 1 up to the last page, in that order; its callback is called
\* at most once, and with success only after all of them have completed,
\* when the peer record holds the name, the version, feature page 0 and the
\* last page number the peer reported.
C23_FullInterrogation ==
  \A i \in DOMAIN int_log :
     int_log[i].found = NewPeer =>
        /\ IsPrefix(IssuedBy(i), FullInterrogation(i))
        /\ Len(IssuedBy(i)) >= 3
        /\ int_log[i].calls <= 1
        /\ int_log[i].status = Success =>
              /\ int_log[i].calls = 1
              /\ IssuedBy(i) = FullInterrogation(i)
              /\ \A c \in int_pending : c.i # i
              /\ peer_info.name /\ peer_info.version
              /\ 0 \in peer_info.pages
              /\ peer_info.pages = 0..remote_last_page
              /\ peer_info.last_page = remote_last_page

\* The interrogation of a new peer with two extended feature pages has
\* ended with success.
C23_Witness ==
  /\ int_log # <<>>
  /\ int_log[1].found = NewPeer
  /\ int_log[1].status = Success
  /\ int_log[1].calls = 1
  /\ remote_last_page = MaxFeaturePage
  /\ Len(IssuedBy(1)) = 3 + MaxFeaturePage
  /\ peer_info.last_page = MaxFeaturePage

\* The peer record an interrogation found had a name, a version and
\* feature page 0.
C24_Populated(i) ==
  /\ int_log[i].found.name
  /\ int_log[i].found.version
  /\ 0 \in int_log[i].found.pages

C24_Step ==
  \A i \in DOMAIN int_log' :
     C24_Populated(i)' =>
        /\ \A k \in DOMAIN IssuedBy(i)' :
              IssuedBy(i)'[k].op = "kReadRemoteExtendedFeatures"
        /\ int_log'[i].calls <= 1
        \* it ends with the last successful answer, or at once
        /\ (\A c \in int_pending' : c.i # i) => int_log'[i].calls = 1
        \* and it fails only with the failure of one of its commands
        /\ (int_log'[i].status # Success /\ int_log'[i].status # "none") =>
              \/ i \in DOMAIN int_log /\ int_log[i].status = int_log'[i].status
              \/ /\ last'.op = "CommandComplete"
                 /\ last'.cmd.i = i
                 /\ last'.status = int_log'[i].status

\* C24: a second Start for a peer whose name, version and supported features
\* an earlier interrogation recorded sends no Remote-Name-Request,
\* Read-Remote-Version-Info or Read-Remote-Supported-Features, only reads of
\* extended feature pages, and its callback is called exactly once, with
\* success unless one of those reads fails.
C24_Reinterrogation == [][C24_Step]_vars

\* A second interrogation of a populated peer has ended with success after
\* reading the extended pages again.
C24_Witness ==
  /\ Len(int_log) >= 2
  /\ C24_Populated(2)
  /\ int_log[1].status = Success
  /\ int_log[2].status = Success
  /\ int_log[2].calls = 1
  /\ Len(IssuedBy(2)) = MaxFeaturePage

C25_Step ==
  /\ (/\ last'.op = "CommandComplete"
      /\ IsError(last'.status)
      /\ ~last'.dropped) =>
        /\ int_log'[last'.cmd.i].calls = 1
        /\ int_log'[last'.cmd.i].status = last'.status
        /\ last'.issued = <<>>
  /\ \A i \in DOMAIN int_log :
        (int_log[i].done /\ IsError(int_log[i].status)) =>
           /\ int_log'[i] = int_log[i]
           /\ IssuedBy(i)' = IssuedBy(i)

\* C25: when one step of an interrogation fails, the callback is called
\* once, with that failure, whether or not the other commands already sent
\* ever complete, and the interrogation sends no further command: none of
\* the extended-feature reads that would have followed.
C25_FailureEndsInterrogation == [][C25_Step]_vars

\* The Remote-Name-Request of an interrogation failed while its other
\* commands were outstanding, and the later successful answer to
\* Read-Remote-Supported-Features, whose peer has extended features, was
\* dropped.
C25_Witness ==
  /\ last.op = "CommandComplete"
  /\ last.dropped
  /\ last.cmd.op = "kReadRemoteSupportedFeatures"
  /\ last.status = Success
  /\ remote_last_page > 0
  /\ int_log[last.cmd.i].calls = 1
  /\ IsError(int_log[last.cmd.i].status)
  /\ IntCommand(last.cmd.i, "kRemoteNameRequest", 0) \notin int_pending
  /\ IntCommand(last.cmd.i, "kReadRemoteVersionInfo", 0) \in int_pending

(***************************************************************************)
(* Claims about closing the channel and about its receive path             *)
(***************************************************************************)
\* C31: a Deactivate on a channel whose link is still present, Inactive or
\* Active, posts exactly one RemoveChannel on the link's dispatcher and does
\* not remove the channel from the link's table inline.
C31_DeactivatePostsRemoveChannel ==
  (last.op = "Deactivate" /\ last.pre.link_) =>
     /\ last.issued = <<"RemoveChannel">>
     /\ Count(link_dispatcher_q, "RemoveChannel") = 1
     /\ in_link_table

\* C33: a HandleRxPdu whose PDU completes no SDU invokes no callback, raises
\* no error and leaves active flag, link, callbacks and pending queue alone;
\* a completed SDU (SDUs are numbered as they complete) is appended to the
\* pending queue exactly when the channel is Inactive with its link present,
\* goes into one delivery of the registered RX callback on the channel's
\* dispatcher exactly when the channel is Active, and a PDU on a Closed
\* channel has no effect at all.
C33_Step ==
  (last'.op = "HandleRxPdu" /\ n_pdu' = n_pdu + 1) =>
    LET completed == n_sdu' = n_sdu + 1
        delivery == <<[kind |-> "rx", func |-> rx_cb_, sdus |-> <<n_sdu'>>,
                       dispatcher |-> dispatcher_]>>
    IN
    /\ ~crashed'
    /\ delivered' = delivered
    /\ UNCHANGED <<active_, link_, dispatcher_, rx_cb_, closed_cb_>>
    /\ ~completed => UNCHANGED <<pending_rx_sdus_, link_job>>
    /\ completed =>
         /\ IF link_ /\ ~active_
              THEN pending_rx_sdus_' = Append(pending_rx_sdus_, n_sdu')
              ELSE pending_rx_sdus_' = pending_rx_sdus_
         /\ IF link_ /\ active_
              THEN link_job' = delivery /\ rx_cb_ # NoCallback
              ELSE link_job' = link_job
    /\ ~link_ => UNCHANGED <<chanFields, chanEnv, n_sdu>>

C33_HandleRxPduEffects == [][C33_Step]_vars

\* C36: once a call of Deactivate has returned, no RX callback and no closed
\* callback of the channel is invoked any more, whatever HandleRxPdu or
\* OnClosed does on the link's thread and whatever delivery tasks were
\* already built or posted.
C36_Step == Deactivated => delivered' = delivered

C36_NoCallbackAfterDeactivate == [][C36_Step]_vars

\* C37: in every reachable state an active channel has its link, both
\* callbacks and both engines; a channel with its link has its RX engine; and
\* right after a Deactivate or OnClosed that found the channel Active the
\* callbacks, the dispatcher and both engines are cleared.
C37_ChannelInvariants ==
  /\ active_ =>
       /\ link_
       /\ rx_cb_ # NoCallback /\ closed_cb_ # NoCallback
       /\ rx_engine_ /\ tx_engine_
  /\ link_ => rx_engine_
  /\ (last.op \in {"Deactivate", "OnClosed"}
        /\ last.pre.link_ /\ last.pre.active_) =>
       /\ rx_cb_ = NoCallback /\ closed_cb_ = NoCallback
       /\ dispatcher_ = NoDispatcher
       /\ ~rx_engine_ /\ ~tx_engine_

(***************************************************************************)
(* Claims about the channel and the lifetime of its link                   *)
(***************************************************************************)
\* C34: the channel dereferences its link only while the weak reference is
\* valid: a call on a channel whose link reference is null never ends in a
\* dereference of it, a task is posted on the link's dispatcher only while
\* the link exists, and a task that runs after the link is gone skips it.
C34_LinkTouchedOnlyWhileValid ==
  /\ (last.op \in {"Send", "Deactivate", "SignalLinkError", "UpgradeSecurity"}
        /\ ~last.pre.link_) =>
       /\ last.ret # "trap"
       /\ last.issued = <<>>
  /\ (last.op \in {"Send", "Deactivate", "UpgradeSecurity"}
        /\ last.issued # <<>>) => link_alive
  /\ (last.op \in {"RunLinkTask", "RunDefaultTask"} /\ ~link_alive) =>
       last.ret = "skipped"

(***************************************************************************)
(* Claims about malformed inquiry-result events                            *)
(***************************************************************************)
C32_Step ==
  (/\ last'.op \in {"InquiryResult", "ExtendedInquiryResult"}
   /\ "malformed" \in DOMAIN last'
   /\ last'.malformed) =>
     /\ ~last'.overread
     /\ ~last'.trapped
     /\ last'.created = {} /\ last'.updated = {}
     /\ last'.rnr = <<>> /\ last'.issued = <<>>
     /\ last'.notified = {}
     /\ UNCHANGED <<nameVars, discVars>>

\* C32: an Inquiry-Result or Inquiry-Result-with-RSSI event whose payload is
\* not exactly num_responses records, and an Extended-Inquiry-Result event
\* of the wrong size, is dropped as a whole: nothing is read past the
\* payload, no peer is created or updated, no Remote-Name-Request is sent,
\* no session is notified, and sessions and the Inquiry stay as they are.
C32_MalformedResultDropped == [][C32_Step]_vars

(***************************************************************************)
(* Claims about the in-flight name requests                                *)
(***************************************************************************)
\* The peers whose Remote-Name-Request the transport accepted and that has
\* neither completed nor failed.
C38_InFlight == {c.peer : c \in rnr_cmds}

C38_Step ==
  LET ended == {c \in rnr_cmds : \A d \in rnr_cmds' : d.n # c.n} IN
  /\ \A c \in ended :
       /\ c.peer \notin requesting_names_'
       /\ FindById(cache_, c.peer) = {} => cache_' = cache_
  /\ (last'.op \in ResultOps /\ ~last'.dropped) =>
       \A p \in cache_' :
          (p.id \in last'.updated /\ ~p.named
             /\ p.id \notin requesting_names_) =>
            /\ Count(last'.rnr, p.id) = 1
            /\ last'.accepted <=> p.id \in requesting_names_'

\* C38: a peer is in requesting_names_ exactly while a Remote-Name-Request
\* for it, accepted by the transport, has neither completed nor failed; a
\* request that ends takes its peer out of the set, also when the peer has
\* left the cache meanwhile, which then changes nothing else; and an inquiry
\* result for an unnamed peer outside the set sends a new request.
C38_InFlightNameRequests ==
  [][C38_Step /\ requesting_names_' = C38_InFlight']_vars

C38_Witness ==
  /\ last.op \in ResultOps
  /\ ~last.dropped
  /\ last.accepted
  /\ last.created = {}
  /\ last.rnr = <<1>>
  /\ n_peer = 1
  /\ n_rnr = 2
  /\ requesting_names_ = {1}

(***************************************************************************)
(* Claims about the scan-enable commands of discoverable mode              *)
(***************************************************************************)
\* C35: whenever a RequestDiscoverable callback has been resolved with
\* success and a session, through the queue or at once, the controller's
\* Scan_Enable had the Inquiry bit set at that moment.
C35_ResolvedWhileScanning ==
  \A r \in DOMAIN scan_log :
     (scan_log[r].calls > 0 /\ scan_log[r].status = Success
        /\ scan_log[r].session # NullSession)
       => HasInquiryBit(scan_log[r].scanAtResolve)

\* The scan bits of a Scan_Enable value other than the Inquiry bit.
C39_OtherBits(v) == IF HasInquiryBit(v) THEN v - kInquiry ELSE v

\* C39: the value of a Write-Scan-Enable that the read callback submits
\* differs from the value the Read-Scan-Enable returned in the Inquiry bit,
\* which becomes the wanted one, and in nothing else: the page-scan bit is
\* written back as read, when enabling and when disabling.
C39_OnlyInquiryBitChanges ==
  (last.op = "ReadScanEnableCallback" /\ last.issued # <<>>) =>
     LET write == last.issued[1] IN
     /\ Len(last.issued) = 1
     /\ write.op = "kWriteScanEnable"
     /\ C39_OtherBits(write.value) = C39_OtherBits(last.read)
     /\ HasInquiryBit(write.value) # HasInquiryBit(last.read)
     /\ HasInquiryBit(write.value)
          <=> (last.hadSession \/ last.pendingBefore # <<>>)

C39_Witness ==
  /\ last.op = "ReadScanEnableCallback"
  /\ last.issued # <<>>
  /\ last.read = kPage + kInquiry
  /\ last.issued[1].value = kPage

(***************************************************************************)
(* Claims about the extended inquiry response                              *)
(***************************************************************************)
\* C40: in the payload built for a local name the length byte of the name's
\* TLV is the number of name bytes written plus one, for the type byte, for
\* a name of any length, truncated or not.
C40_EirLengthByte ==
  eir_response_buf # NoEir =>
    eir_response_buf.length_byte = eir_response_buf.name_bytes + 1

====
